---- MODULE Spec2Model ----
(***************************************************************************)
(* A model of scripts/visual-diff.py: the pairing matcher, the pixel       *)
(* similarity scorer and the main run of the visual regression engine.     *)
(*                                                                         *)
(* Strings are sequences of code points, so that str.lower(), Path.stem,   *)
(* Path.suffix and Python's string ordering are computed, not assumed.     *)
(* Floats are modelled as exact rationals [n, d] (d > 0).                  *)
(***************************************************************************)
EXTENDS Integers, Sequences, FiniteSets, TLC

VARIABLES
    fnState,        \* pure-function harness: "idle" | "ready" | "returned" | "raised"
    fnArgs,         \* the arguments of the call under study
    fnResult,       \* its return value
    HAS_SSIM,       \* _HAS_SSIM: numpy and scikit-image could be imported
    playwright,     \* "unknown" until the first import attempt, then "present" | "absent"
    args,           \* the parsed command line of visual-diff.py
    orig_fs,        \* the --original path: [isdir, files]
    clone_fs,       \* the --clone path: [isdir, files]
    disk,           \* contents of the files read so far, by <<side, name>>
    pc,             \* where main is: "start" "loop" "responsive" "report" "done" "exited" "crashed"
    metric,         \* main's local: the resolved metric
    threshold,      \* main's local: the resolved threshold
    pairs,          \* main's local: the result of match_screenshots
    idx,            \* position of the main loop in pairs
    results,        \* main's local: the page results
    summary,        \* the totals printed after the loop
    html_files,     \* clone HTML files still to render
    responsive_results, \* main's local: page name -> breakpoint entries
    report,         \* what generate_html_report wrote to index.html
    exit_code,      \* the process's exit status (-1 while it runs)
    trace,          \* scorer calls, renders, prints and file writes, in order
    pipe_pc,        \* where run-pipeline.py is: "idle" "parse" "phases" "parallel" "design" "return" "done" "exited"
    phases,         \* run-pipeline main's local: the requested phases
    phase_pos,      \* position of main's loop in ALL_PHASES
    phase_results,  \* run-pipeline main's local: phase -> success ("True" "False" "None")
    executed,       \* the phase runners called so far, in call order
    task_state,     \* run_parallel's tasks: label -> "submitted" "running" "finished"
    extract_results, \* phase_extract's local results: <<label, success>> entries
    css_exists      \* whether <output>/css/styles.css exists

fnVars == <<fnState, fnArgs, fnResult>>

mainVars == <<HAS_SSIM, playwright, args, orig_fs, clone_fs, disk, pc, metric,
              threshold, pairs, idx, results, summary, html_files,
              responsive_results, report, exit_code, trace>>

pipeVars == <<pipe_pc, phases, phase_pos, phase_results, executed, task_state,
              extract_results, css_exists>>

vars == <<fnVars, mainVars, pipeVars>>

(***************************************************************************)
(* Bounds of the model.                                                    *)
(***************************************************************************)
MaxFiles == 3       \* files per directory in the pairing specification
MaxPixels == 2      \* pixels per image in the scorer specification
MaxRegions == 2     \* largest --regions value of a run

(***************************************************************************)
(* Strings as code-point sequences.                                        *)
(***************************************************************************)
None == <<>>        \* Python's None (no file name is empty)

\* The state of main's variables in the specifications of one function.
MainIdle ==
    /\ HAS_SSIM = FALSE /\ playwright = "unknown" /\ args = None
    /\ orig_fs = None /\ clone_fs = None /\ disk = None
    /\ pc = "idle" /\ metric = None /\ threshold = None /\ pairs = None
    /\ idx = 0 /\ results = None /\ summary = None /\ html_files = None
    /\ responsive_results = None /\ report = None /\ exit_code = -1
    /\ trace = None

FnIdle == fnState = "idle" /\ fnArgs = None /\ fnResult = None

PipeIdle ==
    /\ pipe_pc = "idle" /\ phases = None /\ phase_pos = 0 /\ phase_results = None
    /\ executed = None /\ task_state = None /\ extract_results = None
    /\ css_exists = FALSE

Dot == 46

Lower(s) == [i \in 1..Len(s) |-> IF s[i] >= 65 /\ s[i] <= 90 THEN s[i] + 32 ELSE s[i]]

\* Python's str "<": lexicographic by code point, a proper prefix is smaller.
RECURSIVE StrLess(_, _)
StrLess(s, t) ==
    IF t = <<>> THEN FALSE
    ELSE IF s = <<>> THEN TRUE
    ELSE IF s[1] # t[1] THEN s[1] < t[1]
    ELSE StrLess(Tail(s), Tail(t))

\* str.rfind("."), 1-based; 0 when there is no dot.
RFindDot(name) ==
    LET D == {i \in 1..Len(name) : name[i] = Dot}
    IN  IF D = {} THEN 0 ELSE CHOOSE i \in D : \A j \in D : j <= i

\* pathlib: a suffix exists when the last dot is neither first nor last.
HasSuffix(name) == LET i == RFindDot(name) IN 1 < i /\ i < Len(name)

suffix(name) ==
    IF HasSuffix(name) THEN SubSeq(name, RFindDot(name), Len(name)) ELSE <<>>

stem(name) ==
    IF HasSuffix(name) THEN SubSeq(name, 1, RFindDot(name) - 1) ELSE name

\* ".png", ".jpg", ".jpeg", ".webp"
ImageSuffixes ==
    { <<46, 112, 110, 103>>, <<46, 106, 112, 103>>,
      <<46, 106, 112, 101, 103>>, <<46, 119, 101, 98, 112>> }

\* A plausible slip: the extension compared without lower-casing it.
IsScreenshotCaseSensitive(f) == suffix(f) \in ImageSuffixes

\* f.suffix.lower() in (".png", ".jpg", ".jpeg", ".webp")
IsScreenshot(f) == Lower(suffix(f)) \in ImageSuffixes

(***************************************************************************)
(* match_screenshots                                                       *)
(***************************************************************************)
ScreenshotStems(dir) == { stem(f) : f \in { g \in dir : IsScreenshot(g) } }

\* The dicts the loop "for f in iterdir(): d[f.stem] = f" can build: iterdir
\* yields the files in an arbitrary order, and the last file of a stem wins.
StemDicts(dir) ==
    { d \in [ScreenshotStems(dir) -> { g \in dir : IsScreenshot(g) }] :
        \A s \in DOMAIN d : stem(d[s]) = s }

\* sorted(): the elements of a set of strings in ascending order.
RECURSIVE SortedSeq(_)
SortedSeq(S) ==
    IF S = {} THEN <<>>
    ELSE LET m == CHOOSE x \in S : \A y \in S \ {x} : StrLess(x, y)
         IN  <<m>> \o SortedSeq(S \ {m})

\* A plausible slip: clone-only entries emitted before the original-driven ones.
MatchPairsCloneFirst(original_files, clone_files) ==
    LET names == SortedSeq(DOMAIN original_files)
        first == [i \in 1..Len(names) |->
                    IF names[i] \in DOMAIN clone_files
                    THEN <<original_files[names[i]], clone_files[names[i]]>>
                    ELSE <<original_files[names[i]], None>>]
        rest  == SortedSeq(DOMAIN clone_files \ DOMAIN original_files)
    IN  [i \in 1..Len(rest) |-> <<None, clone_files[rest[i]]>>] \o first

\* A plausible slip: the clone loop does not skip the clones already matched.
MatchPairsAllClones(original_files, clone_files) ==
    LET names == SortedSeq(DOMAIN original_files)
        first == [i \in 1..Len(names) |->
                    IF names[i] \in DOMAIN clone_files
                    THEN <<original_files[names[i]], clone_files[names[i]]>>
                    ELSE <<original_files[names[i]], None>>]
        rest  == SortedSeq(DOMAIN clone_files)
    IN  first \o [i \in 1..Len(rest) |-> <<None, clone_files[rest[i]]>>]

\* The pairs built from the two dicts (lines 244-258).
MatchPairs(original_files, clone_files) ==
    LET names == SortedSeq(DOMAIN original_files)
        first == [i \in 1..Len(names) |->
                    IF names[i] \in DOMAIN clone_files
                    THEN <<original_files[names[i]], clone_files[names[i]]>>
                    ELSE <<original_files[names[i]], None>>]
        matched_clones == DOMAIN original_files \cap DOMAIN clone_files
        rest  == SortedSeq(DOMAIN clone_files \ matched_clones)
    IN  first \o [i \in 1..Len(rest) |-> <<None, clone_files[rest[i]]>>]

\* Every result match_screenshots(original_dir, clone_dir) can return.
match_screenshots(original_dir, clone_dir) ==
    { MatchPairs(o, c) : o \in StemDicts(original_dir), c \in StemDicts(clone_dir) }

(***************************************************************************)
(* The pairing specification: two directories drawn from a pool of file    *)
(* names, then one call of match_screenshots.                              *)
(***************************************************************************)
\* "A.png" "B.png" "a.png" "a.jpg" "ab.png" "b.PNG" "b.webp" "a.html" "c.txt"
FileNames ==
    { <<65, 46, 112, 110, 103>>, <<66, 46, 112, 110, 103>>,
      <<97, 46, 112, 110, 103>>, <<97, 46, 106, 112, 103>>,
      <<97, 98, 46, 112, 110, 103>>, <<98, 46, 80, 78, 71>>,
      <<98, 46, 119, 101, 98, 112>>, <<97, 46, 104, 116, 109, 108>>,
      <<99, 46, 116, 120, 116>> }

Directories == { d \in SUBSET FileNames : Cardinality(d) <= MaxFiles }

InitMatch ==
    /\ PipeIdle
    /\ fnState = "ready"
    /\ fnArgs \in Directories \X Directories
    /\ fnResult = None
    /\ MainIdle

CallMatch ==
    /\ fnState = "ready"
    /\ fnResult' \in match_screenshots(fnArgs[1], fnArgs[2])
    /\ fnState' = "returned"
    /\ UNCHANGED <<fnArgs, mainVars, pipeVars>>

NextMatch == CallMatch

SpecMatch == InitMatch /\ [][NextMatch]_vars

PairName(p) == IF p[1] # None THEN stem(p[1]) ELSE stem(p[2])

\* C1: match_screenshots returns exactly one pair per original page name, in
\* ascending name order (matched when the clone directory holds the name,
\* otherwise with the clone side absent), followed by one pair with the
\* original side absent per clone-only name, in ascending name order.
C1_PairsOrder ==
    fnState = "returned" =>
        LET O == ScreenshotStems(fnArgs[1])
            C == ScreenshotStems(fnArgs[2])
            p == fnResult
            k == Cardinality(O)
        IN  /\ Len(p) = k + Cardinality(C \ O)
            /\ \A i \in 1..k :
                /\ p[i][1] \in fnArgs[1] /\ stem(p[i][1]) \in O
                /\ IF stem(p[i][1]) \in C
                   THEN p[i][2] \in fnArgs[2] /\ stem(p[i][2]) = stem(p[i][1])
                   ELSE p[i][2] = None
            /\ \A i \in (k + 1)..Len(p) :
                p[i][1] = None /\ p[i][2] \in fnArgs[2] /\ stem(p[i][2]) \in C \ O
            /\ \A i \in 1..(k - 1) : StrLess(PairName(p[i]), PairName(p[i + 1]))
            /\ \A i \in (k + 1)..(Len(p) - 1) :
                StrLess(PairName(p[i]), PairName(p[i + 1]))

\* The spec's example: a matched page, then a page with no clone, then a page
\* with no original.
C1_Witness ==
    /\ fnState = "returned"
    /\ Len(fnResult) = 3
    /\ fnResult[1][1] # None /\ fnResult[1][2] # None
    /\ fnResult[2][1] # None /\ fnResult[2][2] = None
    /\ fnResult[3][1] = None /\ fnResult[3][2] # None

C9_Supported(f) == Lower(suffix(f)) \in ImageSuffixes

\* C9 as stated: an original and a clone screenshot whose names differ only in
\* extension, or only in the letter case of the stem, form one matched pair.
C9_CaseInsensitiveStem ==
    fnState = "returned" =>
        \A o \in fnArgs[1], c \in fnArgs[2] :
            (C9_Supported(o) /\ C9_Supported(c) /\ Lower(stem(o)) = Lower(stem(c)))
            => \E i \in 1..Len(fnResult) :
                /\ fnResult[i][1] # None /\ fnResult[i][2] # None
                /\ stem(fnResult[i][1]) = stem(o)
                /\ stem(fnResult[i][2]) = stem(c)

\* C9 amended: screenshots with the same stem are one matched page whatever
\* their extensions (and the extensions' letter case); a matched pair always
\* has two equal stems, letter case included, so stems that differ in case
\* are separate pages, each reported with its other side absent.
C9_ExactStem ==
    fnState = "returned" =>
        /\ \A o \in fnArgs[1], c \in fnArgs[2] :
            (C9_Supported(o) /\ C9_Supported(c) /\ stem(o) = stem(c))
            => /\ \E i \in 1..Len(fnResult) :
                    /\ fnResult[i][1] # None /\ fnResult[i][2] # None
                    /\ stem(fnResult[i][1]) = stem(o)
                    /\ stem(fnResult[i][2]) = stem(o)
               /\ \A i \in 1..Len(fnResult) :
                    (fnResult[i][1] = None \/ fnResult[i][2] = None)
                    => PairName(fnResult[i]) # stem(o)
        /\ \A i \in 1..Len(fnResult) :
            (fnResult[i][1] # None /\ fnResult[i][2] # None)
            => stem(fnResult[i][1]) = stem(fnResult[i][2])
        /\ \A o \in fnArgs[1], c \in fnArgs[2] :
            (C9_Supported(o) /\ C9_Supported(c) /\ stem(o) # stem(c)
                /\ stem(c) \notin { stem(g) : g \in { h \in fnArgs[1] : C9_Supported(h) } })
            => \E i \in 1..Len(fnResult) :
                fnResult[i][1] = None /\ stem(fnResult[i][2]) = stem(c)

\* A pair matched across different extensions, next to two entries whose
\* names differ only in letter case and are reported as missing.
C9_Witness ==
    /\ fnState = "returned"
    /\ \E i \in 1..Len(fnResult) :
        /\ fnResult[i][1] # None /\ fnResult[i][2] # None
        /\ Lower(suffix(fnResult[i][1])) # Lower(suffix(fnResult[i][2]))
        /\ suffix(fnResult[i][1]) # Lower(suffix(fnResult[i][1]))
    /\ \E i, j \in 1..Len(fnResult) :
        /\ fnResult[i][2] = None /\ fnResult[j][1] = None
        /\ PairName(fnResult[i]) # PairName(fnResult[j])
        /\ Lower(PairName(fnResult[i])) = Lower(PairName(fnResult[j]))

\* C24: every pair match_screenshots returns has a side present, and every
\* page name found in either directory is the name of exactly one pair.
C24_OnePairPerName ==
    fnState = "returned" =>
        LET Names == { stem(f) : f \in { g \in fnArgs[1] \cup fnArgs[2] :
                                            C9_Supported(g) } }
        IN  /\ \A i \in 1..Len(fnResult) :
                /\ fnResult[i][1] # None \/ fnResult[i][2] # None
                /\ PairName(fnResult[i]) \in Names
            /\ \A n \in Names :
                Cardinality({ i \in 1..Len(fnResult) : PairName(fnResult[i]) = n }) = 1
            /\ Len(fnResult) = Cardinality(Names)

\* A matched page whose original directory holds two files of that name,
\* next to a page without clone: two pairs.
C24_Witness ==
    /\ fnState = "returned"
    /\ \E f, g \in fnArgs[1] :
        f # g /\ C9_Supported(f) /\ C9_Supported(g) /\ stem(f) = stem(g)
    /\ Len(fnResult) = 2
    /\ fnResult[1][1] # None /\ fnResult[1][2] # None
    /\ fnResult[2][2] = None

(***************************************************************************)
(* Numbers: a float is the exact rational n/d, d > 0.                      *)
(***************************************************************************)
Rat(n, d) == [n |-> n, d |-> d]

GE(a, b) == a.n * b.d >= b.n * a.d

LT(a, b) == a.n * b.d < b.n * a.d

(***************************************************************************)
(* Images: a mode, a size (width, height) and the row-major pixel data     *)
(* that Image.getdata() yields.                                            *)
(***************************************************************************)
Tolerance == 10

Abs(x) == IF x < 0 THEN 0 - x ELSE x

RGBPixels == { <<0, 0, 0>>, <<10, 10, 10>>, <<0, 11, 0>>, <<255, 0, 0>> }

RGBAPixels == { <<0, 0, 0, 255>>, <<10, 10, 10, 0>> }

PixelsOf(mode) == IF mode = "RGBA" THEN RGBAPixels ELSE RGBPixels

ImagesOfSize(mode, size) ==
    { [mode |-> mode, size |-> size, data |-> d] :
        d \in [1..(size[1] * size[2]) -> PixelsOf(mode)] }

\* Image.convert("RGB"): an RGBA pixel loses its alpha channel.
ConvertRGB(img) ==
    [mode |-> "RGB", size |-> img.size,
     data |-> [i \in 1..Len(img.data) |-> SubSeq(img.data[i], 1, 3)]]

IsUniform(img) == \A i, j \in 1..Len(img.data) : img.data[i] = img.data[j]

\* Image.resize(size, LANCZOS): the outcomes, "raise" among them.  A target
\* without pixels is refused; a uniform image stays uniform (the filter's
\* weights are normalised); the resampling of anything else is not computed
\* here and may give any image of the target size.
resize(img, size) ==
    IF size[1] < 1 \/ size[2] < 1 THEN { [ok |-> FALSE] }
    ELSE IF Len(img.data) = 0
         THEN { [ok |-> FALSE] }
              \cup { [ok |-> TRUE, img |-> r] : r \in ImagesOfSize(img.mode, size) }
    ELSE { [ok |-> TRUE, img |-> r] :
            r \in { q \in ImagesOfSize(img.mode, size) :
                      IsUniform(img) => (IsUniform(q) /\ q.data[1] = img.data[1]) } }

\* A plausible slip: a strict tolerance test.
PixelMatchingStrict(p1, p2) ==
    \A k \in 1..3 : Abs(p1[k] - p2[k]) < Tolerance

\* all(abs(a - b) <= 10 for a, b in zip(p1, p2))
PixelMatching(p1, p2) ==
    \A k \in 1..3 : Abs(p1[k] - p2[k]) <= Tolerance

\* A plausible slip: the fraction is returned, not the percentage.
PixelSimilarityFraction(img1, img2) ==
    LET pixels1 == ConvertRGB(img1).data
        pixels2 == ConvertRGB(img2).data
        total_pixels == Len(pixels1)
        matching == Cardinality({ i \in 1..total_pixels :
                                    PixelMatching(pixels1[i], pixels2[i]) })
    IN  IF total_pixels = 0 THEN Rat(0, 1)
        ELSE Rat(matching, total_pixels)

\* Lines 31-48, on two images of equal size.
PixelSimilarity(img1, img2) ==
    LET pixels1 == ConvertRGB(img1).data
        pixels2 == ConvertRGB(img2).data
        total_pixels == Len(pixels1)
        matching == Cardinality({ i \in 1..total_pixels :
                                    PixelMatching(pixels1[i], pixels2[i]) })
    IN  IF total_pixels = 0 THEN Rat(0, 1)
        ELSE Rat(matching * 100, total_pixels)

\* A plausible slip: the original is resampled to the clone's dimensions.
ResampleOriginal(img1, img2) ==
    IF img1.size # img2.size
    THEN { IF r.ok
           THEN [ok |-> TRUE, img1 |-> r.img, img2 |-> img2,
                 calls |-> << [image |-> "img1", size |-> img2.size] >>]
           ELSE [ok |-> FALSE] : r \in resize(img1, img2.size) }
    ELSE { [ok |-> TRUE, img1 |-> img1, img2 |-> img2, calls |-> <<>>] }

\* "if img1.size != img2.size: img2 = img2.resize(img1.size, Image.LANCZOS)",
\* the first statement of every scorer and of generate_diff_image: the two
\* images the function goes on with, and the resize calls it made.
Resample(img1, img2) ==
    IF img1.size # img2.size
    THEN { IF r.ok
           THEN [ok |-> TRUE, img1 |-> img1, img2 |-> r.img,
                 calls |-> << [image |-> "img2", size |-> img1.size] >>]
           ELSE [ok |-> FALSE] : r \in resize(img2, img1.size) }
    ELSE { [ok |-> TRUE, img1 |-> img1, img2 |-> img2, calls |-> <<>>] }

\* calculate_pixel_similarity: the outcomes, the resize's among them.
calculate_pixel_similarity(img1, img2) ==
    { IF f.ok THEN [ok |-> TRUE, value |-> PixelSimilarity(f.img1, f.img2),
                    calls |-> f.calls]
              ELSE [ok |-> FALSE] : f \in Resample(img1, img2) }

(***************************************************************************)
(* The scorer specification: two images drawn from the pool, then one call *)
(* of calculate_pixel_similarity.                                          *)
(***************************************************************************)
Shapes ==
    { <<w, h>> : w \in 1..MaxPixels, h \in 0..MaxPixels } \cap
    { s \in (1..MaxPixels) \X (0..MaxPixels) : s[1] * s[2] <= MaxPixels }

ScorerImages ==
    UNION { ImagesOfSize(m, s) : m \in {"RGB", "RGBA"}, s \in Shapes }

InitPixel ==
    /\ PipeIdle
    /\ fnState = "ready"
    /\ fnArgs \in ScorerImages \X ScorerImages
    /\ fnResult = None
    /\ MainIdle

CallPixel ==
    /\ fnState = "ready"
    /\ \E r \in calculate_pixel_similarity(fnArgs[1], fnArgs[2]) :
        \/ /\ r.ok
           /\ fnState' = "returned"
           /\ fnResult' = r.value
        \/ /\ ~r.ok
           /\ fnState' = "raised"
           /\ fnResult' = None
    /\ UNCHANGED <<fnArgs, mainVars, pipeVars>>

NextPixel == CallPixel

SpecPixel == InitPixel /\ [][NextPixel]_vars

\* C10: on two equal-sized images calculate_pixel_similarity returns
\* 100 * (pixels whose three channels all differ by at most 10) / (pixels),
\* a value in [0, 100]; on images without pixels it returns 0.0; it never
\* raises.
C10_PixelSimilarity ==
    (fnState # "ready" /\ fnArgs[1].size = fnArgs[2].size) =>
        LET a == fnArgs[1].data
            b == fnArgs[2].data
            n == Len(a)
            M == { i \in 1..n :
                    /\ a[i][1] - b[i][1] \in -10..10
                    /\ a[i][2] - b[i][2] \in -10..10
                    /\ a[i][3] - b[i][3] \in -10..10 }
        IN  /\ fnState = "returned"
            /\ fnResult.d > 0
            /\ IF n = 0 THEN fnResult.n = 0
               ELSE fnResult.n * n = 100 * Cardinality(M) * fnResult.d
            /\ 0 <= fnResult.n /\ fnResult.n <= 100 * fnResult.d

\* One pixel differs by exactly 10 in a channel and matches, the other
\* differs by 11 and does not: the score is 50.
C10_Witness ==
    /\ fnState = "returned"
    /\ fnArgs[1].size = fnArgs[2].size
    /\ Len(fnArgs[1].data) = 2
    /\ \E i, j \in 1..2 :
        /\ \E k \in 1..3 : Abs(fnArgs[1].data[i][k] - fnArgs[2].data[i][k]) = 10
        /\ \A k \in 1..3 : Abs(fnArgs[1].data[i][k] - fnArgs[2].data[i][k]) <= 10
        /\ \E k \in 1..3 : Abs(fnArgs[1].data[j][k] - fnArgs[2].data[j][k]) = 11
    /\ fnResult.n * 2 = 100 * fnResult.d

\* The degenerate case of C10: two images without pixels score 0.0.
C10_ZeroPixels ==
    /\ fnState = "returned"
    /\ fnArgs[1].size = fnArgs[2].size
    /\ Len(fnArgs[1].data) = 0
    /\ fnResult.n = 0

(***************************************************************************)
(* String building for the names main derives.                             *)
(***************************************************************************)
\* str(n) for n >= 0, in decimal digits.
RECURSIVE Str(_)
Str(n) == IF n < 10 THEN <<48 + n>> ELSE Str(n \div 10) \o <<48 + (n % 10)>>

S_originals == <<111, 114, 105, 103, 105, 110, 97, 108, 115, 47>>      \* "originals/"
S_clones == <<99, 108, 111, 110, 101, 115, 47>>                          \* "clones/"
S_diffs == <<100, 105, 102, 102, 115, 47>>                               \* "diffs/"
S_heatmaps == <<104, 101, 97, 116, 109, 97, 112, 115, 47>>               \* "heatmaps/"
S_diff_png == <<95, 100, 105, 102, 102, 46, 112, 110, 103>>              \* "_diff.png"
S_heatmap_png == <<95, 104, 101, 97, 116, 109, 97, 112, 46, 112, 110, 103>> \* "_heatmap.png"
S_png == <<46, 112, 110, 103>>                                           \* ".png"
S_Region == <<82, 101, 103, 105, 111, 110, 32>>                          \* "Region "
S_top == <<32, 40, 116, 111, 112, 41>>                                   \* " (top)"
S_bottom == <<32, 40, 98, 111, 116, 116, 111, 109, 41>>                  \* " (bottom)"
S_index_html == <<105, 110, 100, 101, 120, 46, 104, 116, 109, 108>>      \* "index.html"
S_responsive == <<114, 101, 115, 112, 111, 110, 115, 105, 118, 101, 47>> \* "responsive/"
S_responsive_report ==                                                   \* "responsive_report/"
    <<114, 101, 115, 112, 111, 110, 115, 105, 118, 101, 95, 114, 101, 112, 111, 114, 116, 47>>
S_orig_dash == <<111, 114, 105, 103, 45>>                                \* "orig-"
S_slash == <<47>>                                                        \* "/"
S_dash == <<45>>                                                         \* "-"
S_html == <<46, 104, 116, 109, 108>>                                     \* ".html"
S_htm == <<46, 104, 116, 109>>                                           \* ".htm"

NA == [str |-> "N/A"]       \* the string "N/A" in a result's similarity

(***************************************************************************)
(* calculate_ssim: scikit-image computes the score; the model keeps what   *)
(* the callers rely on.  The call may raise (for one, when an image side   *)
(* is shorter than the window); identical images score 1.0; the diff map   *)
(* has the shape of the original.                                          *)
(***************************************************************************)
SsimScores == { Rat(1, 2), Rat(95, 100) }

calculate_ssim(img1, img2) ==
    { [ok |-> FALSE] } \cup
    UNION { { [ok |-> TRUE, score |-> sc, diff_map |-> [shape |-> f.img1.size],
               calls |-> f.calls] :
                sc \in IF ConvertRGB(f.img1).data = ConvertRGB(f.img2).data
                       THEN { Rat(1, 1) } ELSE SsimScores }
            : f \in { g \in Resample(img1, img2) : g.ok } }

(***************************************************************************)
(* calculate_region_scores                                                 *)
(***************************************************************************)
\* A plausible slip: the band's height is cropped from the top of the image.
CropFromTop(img, top, bottom) ==
    [mode |-> img.mode, size |-> <<img.size[1], bottom - top>>,
     data |-> SubSeq(img.data, 1, (bottom - top) * img.size[1])]

\* Image.crop((0, top, width, bottom)): the rows top .. bottom - 1.
Crop(img, top, bottom) ==
    [mode |-> img.mode, size |-> <<img.size[1], bottom - top>>,
     data |-> SubSeq(img.data, top * img.size[1] + 1, bottom * img.size[1])]

\* A plausible slip: the test for the last band comes first.
RegionLabelBottomFirst(i, num_regions) ==
    IF i = num_regions - 1 THEN S_Region \o Str(i + 1) \o S_bottom
    ELSE IF i = 0 THEN S_Region \o Str(i + 1) \o S_top
    ELSE S_Region \o Str(i + 1)

RegionLabel(i, num_regions) ==
    IF i = 0 THEN S_Region \o Str(i + 1) \o S_top
    ELSE IF i = num_regions - 1 THEN S_Region \o Str(i + 1) \o S_bottom
    ELSE S_Region \o Str(i + 1)

RegionTop(i, height, num_regions) == i * (height \div num_regions)

\* A plausible slip: the last band does not take the remaining rows.
RegionBottomNoRemainder(i, height, num_regions) ==
    (i + 1) * (height \div num_regions)

RegionBottom(i, height, num_regions) ==
    IF i = num_regions - 1 THEN height ELSE (i + 1) * (height \div num_regions)

\* The outcomes of scoring band i (lines 132-152), a raise of calculate_ssim
\* among them.
RegionOutcomes(img1, img2, i, num_regions, m, has_ssim) ==
    LET height == img1.size[2]
        region1 == Crop(img1, RegionTop(i, height, num_regions),
                        RegionBottom(i, height, num_regions))
        region2 == Crop(img2, RegionTop(i, height, num_regions),
                        RegionBottom(i, height, num_regions))
        label == RegionLabel(i, num_regions)
    IN  IF m = "ssim" /\ has_ssim
        THEN { IF r.ok THEN [ok |-> TRUE,
                             region |-> [label |-> label, score |-> r.score,
                                         metric |-> "ssim"]]
                       ELSE [ok |-> FALSE]
               : r \in calculate_ssim(region1, region2) }
        ELSE { [ok |-> TRUE,
                region |-> [label |-> label,
                            score |-> PixelSimilarity(region1, region2),
                            metric |-> "pixel"]] }

\* The lists calculate_region_scores returns on two images of equal size,
\* and [ok |-> FALSE] when a band's calculate_ssim raises; with them the crop
\* boxes (0, top, width, bottom) of lines 132-138, in order.
RegionLists(img1, img2, num_regions, m, has_ssim) ==
    LET per == [i \in 0..(num_regions - 1) |->
                    RegionOutcomes(img1, img2, i, num_regions, m, has_ssim)]
        oks == [i \in 0..(num_regions - 1) |-> { r \in per[i] : r.ok }]
        upto[k \in 0..num_regions] ==
            IF k = 0 THEN { <<>> }
            ELSE { Append(l, r.region) : l \in upto[k - 1], r \in oks[k - 1] }
        lists == upto[num_regions]
        boxes == [k \in 1..num_regions |->
                    <<0, RegionTop(k - 1, img1.size[2], num_regions), img1.size[1],
                      RegionBottom(k - 1, img1.size[2], num_regions)>>]
    IN  { [ok |-> TRUE, regions |-> l, boxes |-> boxes] : l \in lists }
        \cup (IF \E i \in 0..(num_regions - 1) : \E r \in per[i] : ~r.ok
              THEN { [ok |-> FALSE] } ELSE {})

\* calculate_region_scores: the resampling of lines 124-125, then the bands.
\* A region count of 0 divides by zero at line 128.
calculate_region_scores(img1, img2, num_regions, m, has_ssim) ==
    IF num_regions = 0 THEN { [ok |-> FALSE] }
    ELSE UNION { IF f.ok
                 THEN { IF r.ok THEN r @@ [calls |-> f.calls] ELSE r :
                          r \in RegionLists(f.img1, f.img2, num_regions, m, has_ssim) }
                 ELSE { [ok |-> FALSE] }
                 : f \in Resample(img1, img2) }

(***************************************************************************)
(* generate_diff_image                                                     *)
(***************************************************************************)
DiffThreshold == 30

Min(a, b) == IF a < b THEN a ELSE b

\* ImageChops.difference and sum(pixel): the sum of the absolute channel
\* differences of two RGB pixels.
TotalDiff(p1, p2) == Abs(p1[1] - p2[1]) + Abs(p1[2] - p2[2]) + Abs(p1[3] - p2[3])

\* A plausible slip: a sum equal to the threshold counts as different.
HighlightPixelInclusive(total_diff) ==
    IF total_diff >= DiffThreshold
    THEN <<255, 0, 0, Min(255, total_diff * 2)>>
    ELSE <<0, 0, 0, 0>>

\* Lines 214-219.
HighlightPixel(total_diff) ==
    IF total_diff > DiffThreshold
    THEN <<255, 0, 0, Min(255, total_diff * 2)>>
    ELSE <<0, 0, 0, 0>>

\* Pillow's division by 255 in fixed point: ((x >> 8) + x) >> 8.
ShiftForDiv255(x) == ((x \div 256) + x) \div 256

\* Image.alpha_composite(base, highlight) on one pixel, then convert("RGB"):
\* a transparent source leaves the destination; otherwise Pillow blends
\* with 7 bits of precision.
AlphaComposite(dst, src) ==
    IF src[4] = 0 THEN SubSeq(dst, 1, 3)
    ELSE LET blend == dst[4] * (255 - src[4])
             outa255 == src[4] * 255 + blend
             coef1 == (src[4] * 255 * 255 * 128) \div outa255
             coef2 == 255 * 128 - coef1
         IN  [k \in 1..3 |->
                ShiftForDiv255(src[k] * coef1 + dst[k] * coef2 + 128 * 128) \div 128]

\* generate_diff_image: the composite it returns, the overlay it built
\* (putdata, line 221) and the resize calls it made.
generate_diff_image(img1, img2) ==
    { IF f.ok
      THEN LET img1_rgb == ConvertRGB(f.img1)
               img2_rgb == ConvertRGB(f.img2)
               n == img1.size[1] * img1.size[2]
               highlight == [i \in 1..n |->
                    HighlightPixel(TotalDiff(img1_rgb.data[i], img2_rgb.data[i]))]
           IN  [ok |-> TRUE,
                img |-> [mode |-> "RGB", size |-> img1.size,
                         data |-> [i \in 1..n |->
                            AlphaComposite(img1_rgb.data[i] \o <<255>>, highlight[i])]],
                highlight |-> highlight,
                calls |-> f.calls]
      ELSE [ok |-> FALSE] : f \in Resample(img1, img2) }

(***************************************************************************)
(* The image specification: one call of a scorer, of the region            *)
(* partitioner or of the diff visualizer on an original and a clone.       *)
(***************************************************************************)
MaxHeight == 3      \* rows of an image in the image specification
MaxBands == 3       \* largest region count in the image specification

OrigPixels == { <<0, 0, 0>>, <<10, 10, 10>> }

ClonePixels == { <<0, 0, 0>>, <<10, 10, 10>>, <<10, 10, 41>>, <<255, 0, 0>> }

\* The images of one column and h rows over a set of pixels.
Column(pixels, h) ==
    { [mode |-> "RGB", size |-> <<1, h>>, data |-> d] : d \in [1..h -> pixels] }

\* The pairs explored: equal sizes with every clone; different sizes; and an
\* original with an alpha channel.
ImagePairs ==
    UNION { Column(OrigPixels, h) \X Column(ClonePixels, h) : h \in 1..MaxHeight }
    \cup { p \in UNION { Column(OrigPixels, h1) \X Column(OrigPixels, h2) :
                            h1 \in 1..MaxHeight, h2 \in 1..2 } :
                p[1].size # p[2].size }
    \cup ({ [mode |-> "RGBA", size |-> <<1, 1>>, data |-> << <<10, 10, 10, 0>> >>] }
            \X Column(ClonePixels, 1))

ImageCalls ==
    { [fn |-> fn, num_regions |-> 0, metric |-> "unused", has_ssim |-> FALSE] :
        fn \in {"calculate_pixel_similarity", "generate_diff_image"} }
    \cup { [fn |-> "calculate_ssim", num_regions |-> 0, metric |-> "unused",
            has_ssim |-> h] : h \in BOOLEAN }
    \cup { [fn |-> "calculate_region_scores", num_regions |-> n, metric |-> m,
            has_ssim |-> h] : n \in 1..MaxBands, m \in {"ssim", "pixel"}, h \in BOOLEAN }

InitImage ==
    /\ PipeIdle
    /\ fnState = "ready"
    /\ \E c \in ImageCalls, p \in ImagePairs :
        /\ fnArgs = [fn |-> c.fn, img1 |-> p[1], img2 |-> p[2],
                     num_regions |-> c.num_regions, metric |-> c.metric]
        /\ HAS_SSIM = c.has_ssim
    /\ fnResult = None
    /\ playwright = "unknown" /\ args = None
    /\ orig_fs = None /\ clone_fs = None /\ disk = None
    /\ pc = "idle" /\ metric = None /\ threshold = None /\ pairs = None
    /\ idx = 0 /\ results = None /\ summary = None /\ html_files = None
    /\ responsive_results = None /\ report = None /\ exit_code = -1
    /\ trace = None

\* The call returns r, or raises.
Outcome(r) ==
    /\ fnState' = IF r.ok THEN "returned" ELSE "raised"
    /\ fnResult' = IF r.ok THEN r ELSE None
    /\ UNCHANGED <<fnArgs, mainVars, pipeVars>>

CallSimilarity ==
    /\ fnState = "ready" /\ fnArgs.fn = "calculate_pixel_similarity"
    /\ \E r \in calculate_pixel_similarity(fnArgs.img1, fnArgs.img2) : Outcome(r)

\* Lines 61-65: without scikit-image calculate_ssim raises RuntimeError.
CallSsim ==
    /\ fnState = "ready" /\ fnArgs.fn = "calculate_ssim"
    /\ \E r \in (IF HAS_SSIM THEN calculate_ssim(fnArgs.img1, fnArgs.img2)
                 ELSE { [ok |-> FALSE] }) : Outcome(r)

CallRegionScores ==
    /\ fnState = "ready" /\ fnArgs.fn = "calculate_region_scores"
    /\ \E r \in calculate_region_scores(fnArgs.img1, fnArgs.img2,
                    fnArgs.num_regions, fnArgs.metric, HAS_SSIM) : Outcome(r)

CallDiffImage ==
    /\ fnState = "ready" /\ fnArgs.fn = "generate_diff_image"
    /\ \E r \in generate_diff_image(fnArgs.img1, fnArgs.img2) : Outcome(r)

NextImage == CallSimilarity \/ CallSsim \/ CallRegionScores \/ CallDiffImage

SpecImage == InitImage /\ [][NextImage]_vars

Returned(fn) == fnState = "returned" /\ fnArgs.fn = fn

\* The rows of an image, 0-based: row y is the pixels y*width+1 .. (y+1)*width.
RowPixels(img, y) == { y * img.size[1] + x : x \in 1..img.size[1] }

\* s ends with t.
EndsWith(s, t) ==
    Len(s) >= Len(t) /\ SubSeq(s, Len(s) - Len(t) + 1, Len(s)) = t

\* Some channel of the two pixels differs by more than the tolerance.
BeyondTolerance(p1, p2) ==
    \E k \in 1..3 : p1[k] - p2[k] > 10 \/ p2[k] - p1[k] > 10

\* C11: an image without an empty side scores exactly 100.0 against itself,
\* and so does every band of calculate_region_scores(A, A, N, "pixel") when
\* no band is empty (N <= height).
C11_IdenticalScores100 ==
    /\ (Returned("calculate_pixel_similarity") /\ fnArgs.img1 = fnArgs.img2
            /\ Len(fnArgs.img1.data) > 0)
        => fnResult.value.n = 100 * fnResult.value.d
    /\ (Returned("calculate_region_scores") /\ fnArgs.img1 = fnArgs.img2
            /\ fnArgs.metric = "pixel"
            /\ fnArgs.img1.size[1] >= 1
            /\ fnArgs.img1.size[2] \div fnArgs.num_regions >= 1)
        => \A k \in 1..Len(fnResult.regions) :
            /\ fnResult.regions[k].metric = "pixel"
            /\ fnResult.regions[k].score.n = 100 * fnResult.regions[k].score.d

\* Three bands of a three-row image compared with itself.
C11_Witness ==
    /\ Returned("calculate_region_scores")
    /\ fnArgs.img1 = fnArgs.img2 /\ fnArgs.metric = "pixel"
    /\ fnArgs.num_regions = 3 /\ fnArgs.img1.size[2] = 3
    /\ Len(fnResult.regions) = 3
    /\ \A k \in 1..3 : fnResult.regions[k].score.n = 100 * fnResult.regions[k].score.d

\* C12: calculate_region_scores with N regions on an original of height H
\* returns N entries, top to bottom, whose crop boxes tile the rows [0, H):
\* band i < N-1 is [i*(H div N), (i+1)*(H div N)) and the last band is
\* [(N-1)*(H div N), H).
C12_BandsTile ==
    Returned("calculate_region_scores") =>
        LET N == fnArgs.num_regions
            W == fnArgs.img1.size[1]
            H == fnArgs.img1.size[2]
            b == fnResult.boxes
        IN  /\ Len(fnResult.regions) = N /\ Len(b) = N
            /\ \A k \in 1..N :
                /\ b[k][1] = 0 /\ b[k][3] = W
                /\ b[k][2] = (k - 1) * (H \div N)
                /\ b[k][4] = IF k = N THEN H ELSE k * (H \div N)
                /\ b[k][2] <= b[k][4]
            /\ b[1][2] = 0 /\ b[N][4] = H
            /\ \A k \in 1..(N - 1) : b[k][4] = b[k + 1][2]
            /\ \A y \in 0..(H - 1) :
                Cardinality({ k \in 1..N : b[k][2] <= y /\ y < b[k][4] }) = 1

\* Three rows in two bands: the last band takes rows 1 and 2.
C12_Witness ==
    /\ Returned("calculate_region_scores")
    /\ fnArgs.num_regions = 2 /\ fnArgs.img1.size[2] = 3
    /\ fnResult.boxes = << <<0, 0, 1, 1>>, <<0, 1, 1, 3>> >>

\* C13 as stated: for every region count N >= 1 the first label carries
\* "(top)", the last label carries "(bottom)" and interior labels carry the
\* number only.
C13_TopAndBottomLabels ==
    Returned("calculate_region_scores") =>
        LET N == fnArgs.num_regions
            l == [k \in 1..N |-> fnResult.regions[k].label]
        IN  /\ l[1] = S_Region \o Str(1) \o S_top
            /\ l[N] = S_Region \o Str(N) \o S_bottom
            /\ \A k \in 2..(N - 1) : l[k] = S_Region \o Str(k)

\* C13 amended: for N >= 2 the first label is "Region 1 (top)", the last is
\* "Region N (bottom)" and the interior ones are "Region k"; for N = 1 the
\* only label is "Region 1 (top)" and no label carries "(bottom)".
C13_LabelsFromTwoRegions ==
    Returned("calculate_region_scores") =>
        LET N == fnArgs.num_regions
            l == [k \in 1..N |-> fnResult.regions[k].label]
        IN  /\ l[1] = S_Region \o Str(1) \o S_top
            /\ N >= 2 => l[N] = S_Region \o Str(N) \o S_bottom
            /\ \A k \in 2..(N - 1) : l[k] = S_Region \o Str(k)
            /\ N = 1 => \A k \in 1..N : ~EndsWith(l[k], S_bottom)

\* Three regions: top, numbered only, bottom.
C13_Witness ==
    /\ Returned("calculate_region_scores")
    /\ fnArgs.num_regions = 3
    /\ fnResult.regions[1].label = <<82, 101, 103, 105, 111, 110, 32, 49>> \o S_top
    /\ fnResult.regions[2].label = <<82, 101, 103, 105, 111, 110, 32, 50>>
    /\ fnResult.regions[3].label = <<82, 101, 103, 105, 111, 110, 32, 51>> \o S_bottom

\* The clone equals the original except for rows 0 .. r-1, each of which
\* differs beyond tolerance, and these rows lie inside the first band.
TopRowsDiffer(r) ==
    /\ fnArgs.img1.size = fnArgs.img2.size
    /\ r >= 1 /\ r <= fnArgs.img1.size[2] \div fnArgs.num_regions
    /\ \A y \in 0..(r - 1) :
        \E i \in RowPixels(fnArgs.img1, y) :
            BeyondTolerance(fnArgs.img1.data[i], fnArgs.img2.data[i])
    /\ \A y \in r..(fnArgs.img1.size[2] - 1) :
        \A i \in RowPixels(fnArgs.img1, y) :
            fnArgs.img1.data[i] = fnArgs.img2.data[i]

\* C14: with the pixel metric and N >= 2, a clone that differs from the
\* original only in a run of top rows inside the first band gives the top
\* band a strictly lower score than the bottom band, which scores 100.0.
C14_TopBandLower ==
    (/\ Returned("calculate_region_scores")
     /\ fnArgs.metric = "pixel" /\ fnArgs.num_regions >= 2
     /\ \E r \in 1..fnArgs.img1.size[2] : TopRowsDiffer(r))
    => LET top == fnResult.regions[1].score
           bottom == fnResult.regions[fnArgs.num_regions].score
       IN  /\ top.n * bottom.d < bottom.n * top.d
           /\ bottom.n = 100 * bottom.d

\* Three rows in two bands, the first row differing: top 0.0, bottom 100.0.
C14_Witness ==
    /\ Returned("calculate_region_scores")
    /\ fnArgs.metric = "pixel" /\ fnArgs.num_regions = 2
    /\ fnArgs.img1.size[2] = 3
    /\ TopRowsDiffer(1)
    /\ fnResult.regions[1].score.n = 0

\* C15: in calculate_pixel_similarity, calculate_ssim,
\* calculate_region_scores and generate_diff_image, images of different
\* dimensions make exactly one resize call, of the clone (the second
\* argument) to the original's dimensions, and none otherwise; the diff
\* image, the SSIM map and the region bands have the original's dimensions.
C15_OnlyCloneResampled ==
    fnState = "returned" =>
        LET orig == fnArgs.img1
        IN  /\ fnResult.calls =
                    IF orig.size # fnArgs.img2.size
                    THEN << [image |-> "img2", size |-> orig.size] >>
                    ELSE <<>>
            /\ fnArgs.fn = "generate_diff_image" =>
                /\ fnResult.img.size = orig.size
                /\ Len(fnResult.img.data) = orig.size[1] * orig.size[2]
                /\ Len(fnResult.highlight) = orig.size[1] * orig.size[2]
            /\ fnArgs.fn = "calculate_ssim" =>
                fnResult.diff_map.shape = orig.size
            /\ fnArgs.fn = "calculate_region_scores" =>
                /\ \A k \in 1..Len(fnResult.boxes) :
                    /\ fnResult.boxes[k][1] = 0
                    /\ fnResult.boxes[k][3] = orig.size[1]
                    /\ fnResult.boxes[k][4] <= orig.size[2]
                /\ fnResult.boxes[Len(fnResult.boxes)][4] = orig.size[2]

\* A three-row original and a one-row clone: the diff image has three rows.
C15_Witness ==
    /\ Returned("generate_diff_image")
    /\ fnArgs.img1.size = <<1, 3>> /\ fnArgs.img2.size = <<1, 1>>
    /\ fnResult.calls = << [image |-> "img2", size |-> <<1, 3>>] >>
    /\ fnResult.img.size = <<1, 3>>

\* The sum of the absolute channel differences of pixel i of the arguments.
ArgDiffSum(i) ==
    LET p == fnArgs.img1.data[i]
        q == fnArgs.img2.data[i]
        d(k) == IF p[k] >= q[k] THEN p[k] - q[k] ELSE q[k] - p[k]
    IN  d(1) + d(2) + d(3)

\* C16: generate_diff_image marks a pixel exactly when the sum of its three
\* absolute channel differences is greater than 30, with the overlay pixel
\* (255, 0, 0, min(255, 2 * sum)); an unmarked pixel of the output is the
\* original's pixel, a fully opaque marker gives pure red, and identical
\* inputs give no marked pixel.
C16_DiffImage ==
    Returned("generate_diff_image") =>
        LET n == Len(fnResult.highlight)
            hl == fnResult.highlight
            out == fnResult.img.data
        IN  /\ \A i \in 1..n :
                /\ hl[i][4] = 0 =>
                    /\ hl[i] = <<0, 0, 0, 0>>
                    /\ out[i] = SubSeq(fnArgs.img1.data[i], 1, 3)
                /\ hl[i][4] # 0 => (hl[i][1] = 255 /\ hl[i][2] = 0 /\ hl[i][3] = 0)
                /\ hl[i][4] = 255 => out[i] = <<255, 0, 0>>
            /\ fnArgs.img1.size = fnArgs.img2.size =>
                \A i \in 1..n :
                    /\ hl[i][4] # 0 <=> ArgDiffSum(i) > 30
                    /\ ArgDiffSum(i) > 30 =>
                        hl[i][4] = IF 2 * ArgDiffSum(i) > 255 THEN 255
                                   ELSE 2 * ArgDiffSum(i)
            /\ fnArgs.img1 = fnArgs.img2 =>
                \A i \in 1..n : hl[i] = <<0, 0, 0, 0>>

\* One image with a sum of 30 (unmarked), a sum of 31 (alpha 62) and a sum
\* of 255 (alpha capped at 255).
C16_Witness ==
    /\ Returned("generate_diff_image")
    /\ fnArgs.img1.size = fnArgs.img2.size
    /\ \E i, j, k \in 1..Len(fnResult.highlight) :
        /\ ArgDiffSum(i) = 30 /\ fnResult.highlight[i] = <<0, 0, 0, 0>>
        /\ fnResult.img.data[i] = fnArgs.img1.data[i]
        /\ ArgDiffSum(j) = 31 /\ fnResult.highlight[j] = <<255, 0, 0, 62>>
        /\ ArgDiffSum(k) = 255 /\ fnResult.highlight[k] = <<255, 0, 0, 255>>
        /\ fnResult.img.data[k] = <<255, 0, 0>>

(***************************************************************************)
(* main: the run of visual-diff.py.                                        *)
(***************************************************************************)
\* The runs explored: plain runs over two pages with every threshold, and
\* responsive runs over one page, its per-breakpoint original and its HTML.
\* "a.png" "b.png" "a-320.png"
PlainOrigNames ==
    { <<97, 46, 112, 110, 103>>, <<98, 46, 112, 110, 103>>,
      <<97, 45, 51, 50, 48, 46, 112, 110, 103>> }

\* "a.jpg" "b.png"
PlainCloneNames == { <<97, 46, 106, 112, 103>>, <<98, 46, 112, 110, 103>> }

\* "a.png" "a-320.png" "a.txt" "a-320.jpg"
ResponsiveOrigNames ==
    { <<97, 46, 112, 110, 103>>, <<97, 45, 51, 50, 48, 46, 112, 110, 103>>,
      <<97, 46, 116, 120, 116>>, <<97, 45, 51, 50, 48, 46, 106, 112, 103>> }

\* "a.jpg" "a.html" "b.htm"
ResponsiveCloneNames ==
    { <<97, 46, 106, 112, 103>>, <<97, 46, 104, 116, 109, 108>>,
      <<98, 46, 104, 116, 109>> }

DirPool(names) ==
    { [isdir |-> TRUE, files |-> F] :
        F \in { G \in SUBSET names : Cardinality(G) <= MaxFiles } }
    \cup { [isdir |-> FALSE, files |-> {}] }

\* --breakpoints after parsing; the default stands in a run without --responsive.
BreakpointLists == { <<320>>, <<768, 320>>, <<320, 320>> }

PlainArgs ==
    [metric : {"ssim", "pixel"},
     threshold : { None, Rat(95, 100), Rat(50, 1) },
     responsive : { FALSE },
     breakpoints : { <<320, 768, 1024, 1440>> },
     regions : 0..MaxRegions]

ResponsiveArgs ==
    [metric : {"ssim", "pixel"},
     threshold : { None },
     responsive : { TRUE },
     breakpoints : BreakpointLists,
     regions : { MaxRegions }]

\* The threshold of the visual-diff task of phase_validate in run-pipeline.py:
\* "--threshold", "95".
ValidateThreshold == Rat(95, 1)

\* The arguments phase_validate runs visual-diff.py with: --original, --clone,
\* --output and --threshold 95, everything else at its default.
PipelineArgs ==
    [metric : {"ssim"},
     threshold : { ValidateThreshold },
     responsive : { FALSE },
     breakpoints : { <<320, 768, 1024, 1440>> },
     regions : { MaxRegions }]

Scenarios ==
    ((PlainArgs \cup PipelineArgs) \X DirPool(PlainOrigNames) \X DirPool(PlainCloneNames))
    \cup (ResponsiveArgs \X DirPool(ResponsiveOrigNames)
                         \X DirPool(ResponsiveCloneNames))

\* What a file holds: something Image.open refuses, an image whose header
\* reads but whose pixel data does not decode, or an image.
Unreadable == [kind |-> "unreadable"]

Truncated == [kind |-> "truncated"]

ImageFile(img) == [kind |-> "image", img |-> img]

ImgA == [mode |-> "RGB", size |-> <<1, 2>>, data |-> << <<0, 0, 0>>, <<0, 0, 0>> >>]

ImgB == [mode |-> "RGB", size |-> <<1, 2>>, data |-> << <<10, 10, 10>>, <<0, 0, 0>> >>]

ImgC == [mode |-> "RGB", size |-> <<1, 2>>, data |-> << <<255, 0, 0>>, <<0, 0, 0>> >>]

ImgS == [mode |-> "RGB", size |-> <<1, 1>>, data |-> << <<0, 0, 0>> >>]

OrigContents == { Unreadable, Truncated, ImageFile(ImgA) }

CloneContents ==
    { Unreadable, Truncated, ImageFile(ImgA), ImageFile(ImgB), ImageFile(ImgC),
      ImageFile(ImgS) }

\* The contents a file can show when read: what it showed before.
OrigRead(f) ==
    IF <<"original", f>> \in DOMAIN disk THEN { disk[<<"original", f>>] }
    ELSE OrigContents

CloneRead(f) ==
    IF <<"clone", f>> \in DOMAIN disk THEN { disk[<<"clone", f>>] }
    ELSE CloneContents

Init ==
    /\ PipeIdle
    /\ FnIdle
    /\ HAS_SSIM \in BOOLEAN
    /\ playwright = "unknown"
    /\ \E sc \in Scenarios :
        args = sc[1] /\ orig_fs = sc[2] /\ clone_fs = sc[3]
    /\ disk = <<>>
    /\ pc = "start"
    /\ metric = None /\ threshold = None
    /\ pairs = <<>> /\ idx = 0 /\ results = <<>> /\ summary = None
    /\ html_files = <<>> /\ responsive_results = <<>> /\ report = None
    /\ exit_code = -1
    /\ trace = <<>>

\* A plausible slip: no fallback when scikit-image is missing.
ResolveMetricNoFallback(requested, has_ssim) == requested

\* Lines 485-495.
ResolveMetric(requested, has_ssim) ==
    IF requested = "ssim" /\ ~has_ssim THEN "pixel" ELSE requested

\* A plausible slip: the default of the structural metric for every metric.
ResolveThresholdOneDefault(given, m) ==
    IF given # None THEN given ELSE Rat(95, 100)

ResolveThreshold(given, m) ==
    IF given # None THEN given
    ELSE IF m = "ssim" THEN Rat(95, 100) ELSE Rat(95, 1)

\* A plausible slip: the empty pairing is not noticed.
NoPairsNever(p) == FALSE

\* Line 523: "if not pairs".
NoPairs(p) == p = <<>>

\* Lines 485-525: metric, threshold, the directory checks, the output
\* directories and the pairing.
Start ==
    /\ pc = "start"
    /\ metric' = ResolveMetric(args.metric, HAS_SSIM)
    /\ threshold' = ResolveThreshold(args.threshold, metric')
    /\ \/ /\ ~orig_fs.isdir \/ ~clone_fs.isdir
          /\ pc' = "exited" /\ exit_code' = 1
          /\ trace' = trace \o << <<"print", "Error: directory not found">> >>
          /\ UNCHANGED <<pairs, idx>>
       \/ /\ orig_fs.isdir /\ clone_fs.isdir
          /\ \E p \in match_screenshots(orig_fs.files, clone_fs.files) :
                /\ pairs' = p
                /\ IF NoPairs(p)
                   THEN /\ pc' = "exited" /\ exit_code' = 0
                        /\ trace' = trace \o << <<"mkdir", "output">>,
                                     <<"print", "No screenshots found to compare.">> >>
                        /\ idx' = idx
                   ELSE /\ pc' = "loop" /\ exit_code' = exit_code
                        /\ trace' = trace \o << <<"mkdir", "output">> >>
                        /\ idx' = 1
    /\ UNCHANGED <<fnVars, pipeVars, HAS_SSIM, playwright, args, orig_fs, clone_fs, disk,
                   results, summary, html_files, responsive_results, report>>

\* name = (orig_path or clone_path).stem
PageName(pair) == IF pair[1] # None THEN stem(pair[1]) ELSE stem(pair[2])

\* A plausible slip: an absent side recorded like an unreadable image.
MissingResultAsFail(name) ==
    [name |-> name, status |-> "fail", similarity |-> Rat(0, 1)]

\* Lines 546 and 551.
MissingResult(name) == [name |-> name, status |-> "missing", similarity |-> NA]

\* Lines 544-552: a pair with one side absent.
PairMissing ==
    /\ pc = "loop" /\ idx <= Len(pairs)
    /\ pairs[idx][1] = None \/ pairs[idx][2] = None
    /\ results' = Append(results, MissingResult(PageName(pairs[idx])))
    /\ trace' = Append(trace, <<"print", "MISSING", PageName(pairs[idx])>>)
    /\ idx' = idx + 1
    /\ UNCHANGED <<fnVars, pipeVars, HAS_SSIM, playwright, args, orig_fs, clone_fs, disk, pc,
                   metric, threshold, pairs, summary, html_files,
                   responsive_results, report, exit_code>>

\* Lines 554-560: Image.open raises for the original, or for the clone.
PairOpenError ==
    /\ pc = "loop" /\ idx <= Len(pairs)
    /\ pairs[idx][1] # None /\ pairs[idx][2] # None
    /\ \/ \E oc \in OrigRead(pairs[idx][1]) :
            /\ oc = Unreadable
            /\ disk' = (<<"original", pairs[idx][1]>> :> oc) @@ disk
       \/ \E oc \in OrigRead(pairs[idx][1]), cc \in CloneRead(pairs[idx][2]) :
            /\ oc # Unreadable /\ cc = Unreadable
            /\ disk' = (<<"original", pairs[idx][1]>> :> oc)
                        @@ (<<"clone", pairs[idx][2]>> :> cc) @@ disk
    /\ results' = Append(results, [name |-> PageName(pairs[idx]),
                                   status |-> "fail", similarity |-> Rat(0, 1)])
    /\ trace' = Append(trace, <<"print", "ERROR", PageName(pairs[idx])>>)
    /\ idx' = idx + 1
    /\ UNCHANGED <<fnVars, pipeVars, HAS_SSIM, playwright, args, orig_fs, clone_fs, pc,
                   metric, threshold, pairs, summary, html_files,
                   responsive_results, report, exit_code>>

\* Line 563: both files opened, and the pixel data of one does not decode
\* (or the resize is refused): calculate_pixel_similarity raises outside any
\* try, and the run ends with a traceback.
PairDecodeError ==
    /\ pc = "loop" /\ idx <= Len(pairs)
    /\ pairs[idx][1] # None /\ pairs[idx][2] # None
    /\ \E oc \in OrigRead(pairs[idx][1]), cc \in CloneRead(pairs[idx][2]) :
        /\ oc # Unreadable /\ cc # Unreadable
        /\ \/ oc = Truncated
           \/ cc = Truncated
           \/ /\ oc.kind = "image" /\ cc.kind = "image"
              /\ [ok |-> FALSE] \in calculate_pixel_similarity(oc.img, cc.img)
        /\ disk' = (<<"original", pairs[idx][1]>> :> oc)
                    @@ (<<"clone", pairs[idx][2]>> :> cc) @@ disk
    /\ trace' = Append(trace, <<"pixel", PageName(pairs[idx])>>)
    /\ pc' = "crashed" /\ exit_code' = 1
    /\ UNCHANGED <<fnVars, pipeVars, HAS_SSIM, playwright, args, orig_fs, clone_fs,
                   metric, threshold, pairs, idx, results, summary, html_files,
                   responsive_results, report>>

\* A plausible slip: a score equal to the threshold fails.
PageStatusStrict(m, ssim_score, pixel_similarity, thr) ==
    IF m = "ssim" /\ ssim_score # None
    THEN IF ~GE(thr, ssim_score) THEN "pass" ELSE "fail"
    ELSE IF ~GE(thr, pixel_similarity) THEN "pass" ELSE "fail"

\* A plausible slip: a status kept across iterations, so that a page after a
\* failed page fails too.
PageStatusSticky(m, ssim_score, pixel_similarity, thr) ==
    IF \E i \in 1..Len(results) : results[i].status = "fail" THEN "fail"
    ELSE IF m = "ssim" /\ ssim_score # None
    THEN IF GE(ssim_score, thr) THEN "pass" ELSE "fail"
    ELSE IF GE(pixel_similarity, thr) THEN "pass" ELSE "fail"

\* Lines 574-578.
PageStatus(m, ssim_score, pixel_similarity, thr) ==
    IF m = "ssim" /\ ssim_score # None
    THEN IF GE(ssim_score, thr) THEN "pass" ELSE "fail"
    ELSE IF GE(pixel_similarity, thr) THEN "pass" ELSE "fail"

\* Lines 565-572: the SSIM attempt of a page; a raise is caught and leaves
\* ssim_score and ssim_diff_map None.
PageSsim(img1, img2, has_ssim) ==
    IF has_ssim
    THEN { IF r.ok THEN [ssim_score |-> r.score, ssim_diff_map |-> r.diff_map]
                   ELSE [ssim_score |-> None, ssim_diff_map |-> None]
           : r \in calculate_ssim(img1, img2) }
    ELSE { [ssim_score |-> None, ssim_diff_map |-> None] }

\* A plausible slip: "<=" for "<" in the test of line 605.
PageEntryDiffInclusive(name, orig_path, clone_path, pixel_similarity, ss, status) ==
    [name |-> name, similarity |-> pixel_similarity, ssim_score |-> ss.ssim_score,
     status |-> status, original_rel |-> S_originals \o orig_path,
     clone_rel |-> S_clones \o clone_path]
    @@ (IF ~LT(Rat(100, 1), pixel_similarity)
        THEN [diff_rel |-> S_diffs \o name \o S_diff_png] ELSE <<>>)
    @@ (IF ss.ssim_diff_map # None
        THEN [heatmap_rel |-> S_heatmaps \o name \o S_heatmap_png] ELSE <<>>)

\* A plausible slip: the heatmap nested under the test of line 605.
PageEntryHeatmapOnDifference(name, orig_path, clone_path, pixel_similarity, ss, status) ==
    [name |-> name, similarity |-> pixel_similarity, ssim_score |-> ss.ssim_score,
     status |-> status, original_rel |-> S_originals \o orig_path,
     clone_rel |-> S_clones \o clone_path]
    @@ (IF LT(pixel_similarity, Rat(100, 1))
        THEN [diff_rel |-> S_diffs \o name \o S_diff_png] ELSE <<>>)
    @@ (IF ss.ssim_diff_map # None /\ LT(pixel_similarity, Rat(100, 1))
        THEN [heatmap_rel |-> S_heatmaps \o name \o S_heatmap_png] ELSE <<>>)

\* A plausible slip: the heatmap path recorded without the test of line 612.
PageEntryHeatmapAlways(name, orig_path, clone_path, pixel_similarity, ss, status) ==
    [name |-> name, similarity |-> pixel_similarity, ssim_score |-> ss.ssim_score,
     status |-> status, original_rel |-> S_originals \o orig_path,
     clone_rel |-> S_clones \o clone_path]
    @@ (IF LT(pixel_similarity, Rat(100, 1))
        THEN [diff_rel |-> S_diffs \o name \o S_diff_png] ELSE <<>>)
    @@ [heatmap_rel |-> S_heatmaps \o name \o S_heatmap_png]

\* Lines 595-616: the result entry, with its optional diff and heatmap.
PageEntry(name, orig_path, clone_path, pixel_similarity, ss, status) ==
    [name |-> name, similarity |-> pixel_similarity, ssim_score |-> ss.ssim_score,
     status |-> status, original_rel |-> S_originals \o orig_path,
     clone_rel |-> S_clones \o clone_path]
    @@ (IF LT(pixel_similarity, Rat(100, 1))
        THEN [diff_rel |-> S_diffs \o name \o S_diff_png] ELSE <<>>)
    @@ (IF ss.ssim_diff_map # None
        THEN [heatmap_rel |-> S_heatmaps \o name \o S_heatmap_png] ELSE <<>>)

\* A plausible slip: the heatmaps are left to a pass after the loop.
PageTraceNoHeatmap(name, entry, has_ssim) ==
    << <<"pixel", name>> >>
    \o (IF has_ssim THEN << <<"ssim", name>> >> ELSE <<>>)
    \o << <<"write", entry.original_rel>>, <<"write", entry.clone_rel>> >>
    \o (IF "diff_rel" \in DOMAIN entry THEN << <<"write", entry.diff_rel>> >> ELSE <<>>)

\* The scorer calls and file writes of lines 563-616, in order.
PageTrace(name, entry, has_ssim) ==
    << <<"pixel", name>> >>
    \o (IF has_ssim THEN << <<"ssim", name>> >> ELSE <<>>)
    \o << <<"write", entry.original_rel>>, <<"write", entry.clone_rel>> >>
    \o (IF "diff_rel" \in DOMAIN entry THEN << <<"write", entry.diff_rel>> >> ELSE <<>>)
    \o (IF "heatmap_rel" \in DOMAIN entry
        THEN << <<"write", entry.heatmap_rel>> >> ELSE <<>>)

\* Lines 554-625: a pair whose two images load and decode.
PairCompared ==
    /\ pc = "loop" /\ idx <= Len(pairs)
    /\ pairs[idx][1] # None /\ pairs[idx][2] # None
    /\ \E oc \in OrigRead(pairs[idx][1]), cc \in CloneRead(pairs[idx][2]) :
        /\ oc.kind = "image" /\ cc.kind = "image"
        /\ disk' = (<<"original", pairs[idx][1]>> :> oc)
                    @@ (<<"clone", pairs[idx][2]>> :> cc) @@ disk
        /\ \E rz \in (IF oc.img.size # cc.img.size
                      THEN resize(cc.img, oc.img.size)
                      ELSE { [ok |-> TRUE, img |-> cc.img] }) :
            /\ rz.ok
            /\ \E ss \in PageSsim(oc.img, rz.img, HAS_SSIM) :
                LET name == PageName(pairs[idx])
                    pixel_similarity == PixelSimilarity(oc.img, rz.img)
                    status == PageStatus(metric, ss.ssim_score, pixel_similarity,
                                         threshold)
                    entry == PageEntry(name, pairs[idx][1], pairs[idx][2],
                                       pixel_similarity, ss, status)
                    tr == trace \o PageTrace(name, entry, HAS_SSIM)
                IN  IF args.regions > 1
                    THEN \E rg \in calculate_region_scores(oc.img, rz.img,
                                        args.regions, metric, HAS_SSIM) :
                            \/ /\ rg.ok
                               /\ results' = Append(results,
                                                entry @@ [regions |-> rg.regions])
                               /\ trace' = Append(tr, <<"regions", name>>)
                               /\ idx' = idx + 1
                               /\ UNCHANGED <<pc, exit_code>>
                            \/ /\ ~rg.ok
                               /\ trace' = Append(tr, <<"regions", name>>)
                               /\ pc' = "crashed" /\ exit_code' = 1
                               /\ UNCHANGED <<results, idx>>
                    ELSE /\ results' = Append(results, entry)
                         /\ trace' = tr
                         /\ idx' = idx + 1
                         /\ UNCHANGED <<pc, exit_code>>
    /\ UNCHANGED <<fnVars, pipeVars, HAS_SSIM, playwright, args, orig_fs, clone_fs,
                   metric, threshold, pairs, summary, html_files,
                   responsive_results, report>>

\* A plausible slip: only the compared pages are counted.
CountStatusCompared(rs, st) ==
    Cardinality({ i \in 1..Len(rs) : "ssim_score" \in DOMAIN rs[i] /\ rs[i].status = st })

CountStatus(rs, st) == Cardinality({ i \in 1..Len(rs) : rs[i].status = st })

\* glob("*.html") then glob("*.htm"): the clone's HTML files.
HtmlFiles(files, ext) == { f \in files : suffix(f) = ext }

\* Lines 627-660: the totals, and the clone HTML files when --responsive.
Summarize ==
    /\ pc = "loop" /\ idx > Len(pairs)
    /\ summary' = [passed |-> CountStatus(results, "pass"),
                   failed |-> CountStatus(results, "fail"),
                   missing |-> CountStatus(results, "missing")]
    /\ trace' = Append(trace, <<"print", "Summary">>)
    /\ IF args.responsive
       THEN /\ \E h \in { q \in [1..Cardinality(HtmlFiles(clone_fs.files, S_html))
                                    -> HtmlFiles(clone_fs.files, S_html)] :
                            \A i, j \in DOMAIN q : i # j => q[i] # q[j] },
                  m \in { q \in [1..Cardinality(HtmlFiles(clone_fs.files, S_htm))
                                    -> HtmlFiles(clone_fs.files, S_htm)] :
                            \A i, j \in DOMAIN q : i # j => q[i] # q[j] } :
                /\ html_files' = h \o m
                /\ pc' = IF h \o m = <<>> THEN "report" ELSE "responsive"
       ELSE /\ html_files' = <<>>
            /\ pc' = "report"
    /\ UNCHANGED <<fnVars, pipeVars, HAS_SSIM, playwright, args, orig_fs, clone_fs, disk,
                   metric, threshold, pairs, idx, results,
                   responsive_results, report, exit_code>>

\* generate_html_report, lines 305-314 and 445-447: the totals and the
\* primary metric's label, the page results and the responsive section.
generate_html_report(rs, m, resp) ==
    [total |-> Len(rs),
     passed |-> CountStatus(rs, "pass"),
     failed |-> CountStatus(rs, "fail"),
     missing |-> CountStatus(rs, "missing"),
     metric_label |-> IF m = "ssim" THEN "SSIM" ELSE "Pixel",
     pages |-> rs,
     responsive |-> resp]

\* Lines 730-734: the report is written and main returns.
WriteReport ==
    /\ pc = "report"
    /\ report' = generate_html_report(results, metric, responsive_results)
    /\ trace' = trace \o << <<"write", S_index_html>>, <<"print", "Done.">> >>
    /\ pc' = "done" /\ exit_code' = 0
    /\ UNCHANGED <<fnVars, pipeVars, HAS_SSIM, playwright, args, orig_fs, clone_fs, disk,
                   metric, threshold, pairs, idx, results, summary, html_files,
                   responsive_results>>

(***************************************************************************)
(* The responsive flow, lines 646-728, and render_html_at_breakpoints.     *)
(***************************************************************************)
\* sorted() of a set of ints.
RECURSIVE SortedInts(_)
SortedInts(S) ==
    IF S = {} THEN <<>>
    ELSE LET m == CHOOSE x \in S : \A y \in S : x <= y
         IN  <<m>> \o SortedInts(S \ {m})

\* A plausible slip: the width left out of the capture's name.
ScreenshotNameNoWidth(page_name, width) == page_name \o S_png

\* f"{stem}-{width}.png"
ScreenshotName(page_name, width) == page_name \o S_dash \o Str(width) \o S_png

\* Path.glob(f"{page_name}.*"): the names that start with page_name and a dot.
GlobPage(files, page_name) ==
    { f \in files :
        /\ Len(f) > Len(page_name)
        /\ SubSeq(f, 1, Len(page_name) + 1) = page_name \o <<Dot>> }

\* Lines 690-694: the original to compare a capture with, None when there
\* is none; candidates[0] is any of the glob's matches.
OrigResponsive(files, page_name, width) ==
    IF ScreenshotName(page_name, width) \in files
    THEN { ScreenshotName(page_name, width) }
    ELSE IF GlobPage(files, page_name) = {} THEN { None }
    ELSE GlobPage(files, page_name)

\* What the Renderer can capture.
RenderedImages == { ImgA, ImgC }

\* Lines 705-722: the comparison of one capture with its original; any
\* exception is caught and leaves the entry without a score.
CompareOutcomes(oc, m, has_ssim) ==
    IF oc.kind # "image" THEN { <<>> }
    ELSE UNION {
        IF m = "ssim" /\ has_ssim
        THEN { IF r.ok THEN [score |-> r.score, metric |-> "ssim"] ELSE <<>>
               : r \in calculate_ssim(oc.img, shot) }
        ELSE { IF r.ok THEN [score |-> r.value, metric |-> "pixel"] ELSE <<>>
               : r \in calculate_pixel_similarity(oc.img, shot) }
        : shot \in RenderedImages }

\* Lines 684-726: the entries one breakpoint can get.
BreakpointEntries(files, d, page_name, width, m, has_ssim) ==
    LET base == [width |-> width,
                 clone_rel |-> S_responsive_report \o page_name \o S_slash
                               \o ScreenshotName(page_name, width)]
    IN  UNION {
            IF cand = None THEN { base }
            ELSE { base
                   @@ [original_rel |-> S_responsive_report \o page_name \o S_slash
                                        \o S_orig_dash \o cand]
                   @@ sc : sc \in CompareOutcomes(d[<<"original", cand>>], m, has_ssim) }
            : cand \in OrigResponsive(files, page_name, width) }

\* The files of the original directory a page's breakpoints may read.
PageOriginals(files, page_name, widths) ==
    UNION { OrigResponsive(files, page_name, w) \ { None } : w \in widths }

\* The contents of the files read so far extended to the files F.
DiskExtensions(F) ==
    { d \in [DOMAIN disk \cup ({"original"} \X F) -> OrigContents \cup CloneContents] :
        /\ \A f \in DOMAIN disk : d[f] = disk[f]
        /\ \A f \in F : d[<<"original", f>>] \in OrigRead(f) }

Range(q) == { q[i] : i \in DOMAIN q }

\* render_html_at_breakpoints fails to import Playwright and returns {}:
\* the page is skipped (lines 168-173 and 671-673).
RenderSkipped ==
    /\ pc = "responsive" /\ html_files # <<>>
    /\ playwright \in {"unknown", "absent"}
    /\ playwright' = "absent"
    /\ trace' = Append(trace, <<"print", "Skipped", stem(Head(html_files))>>)
    /\ html_files' = Tail(html_files)
    /\ pc' = IF Tail(html_files) = <<>> THEN "report" ELSE "responsive"
    /\ UNCHANGED <<fnVars, pipeVars, HAS_SSIM, args, orig_fs, clone_fs, disk, metric,
                   threshold, pairs, idx, results, summary, responsive_results,
                   report, exit_code>>

\* The Renderer fails at breakpoint k + 1 of the page (lines 185-191):
\* nothing catches it in render_html_at_breakpoints or in main.
RenderError ==
    /\ pc = "responsive" /\ html_files # <<>>
    /\ playwright \in {"unknown", "present"}
    /\ playwright' = "present"
    /\ \E k \in 0..(Len(args.breakpoints) - 1) :
        trace' = trace
            \o [i \in 1..k |-> <<"render", stem(Head(html_files)), args.breakpoints[i]>>]
            \o << <<"render_error", stem(Head(html_files)), args.breakpoints[k + 1]>> >>
    /\ pc' = "crashed" /\ exit_code' = 1
    /\ UNCHANGED <<fnVars, pipeVars, HAS_SSIM, args, orig_fs, clone_fs, disk, metric,
                   threshold, pairs, idx, results, summary, html_files,
                   responsive_results, report>>

\* Lines 662-728 for one clone HTML file whose every capture succeeds.
RenderPage ==
    /\ pc = "responsive" /\ html_files # <<>>
    /\ playwright \in {"unknown", "present"}
    /\ playwright' = "present"
    /\ LET page_name == stem(Head(html_files))
           widths == SortedInts(Range(args.breakpoints))
       IN  \E d \in DiskExtensions(PageOriginals(orig_fs.files, page_name,
                                                 Range(args.breakpoints))) :
            /\ disk' = d
            /\ \E data \in { q \in [1..Len(widths) ->
                                UNION { BreakpointEntries(orig_fs.files, d, page_name,
                                            widths[i], metric, HAS_SSIM)
                                        : i \in 1..Len(widths) }] :
                             \A i \in 1..Len(widths) :
                                q[i] \in BreakpointEntries(orig_fs.files, d, page_name,
                                            widths[i], metric, HAS_SSIM) } :
                /\ responsive_results' = (page_name :> data) @@ responsive_results
                /\ trace' = trace
                    \o [i \in 1..Len(args.breakpoints) |->
                            <<"render", page_name, args.breakpoints[i]>>]
                    \o [i \in 1..Len(widths) |-> <<"write", data[i].clone_rel>>]
    /\ html_files' = Tail(html_files)
    /\ pc' = IF Tail(html_files) = <<>> THEN "report" ELSE "responsive"
    /\ UNCHANGED <<fnVars, pipeVars, HAS_SSIM, args, orig_fs, clone_fs, metric,
                   threshold, pairs, idx, results, summary, report, exit_code>>

Next ==
    \/ Start
    \/ PairMissing
    \/ PairOpenError
    \/ PairDecodeError
    \/ PairCompared
    \/ Summarize
    \/ RenderSkipped
    \/ RenderError
    \/ RenderPage
    \/ WriteReport

Spec == Init /\ [][Next]_vars

(***************************************************************************)
(* Properties of the run.                                                  *)
(***************************************************************************)
Compared(r) == "ssim_score" \in DOMAIN r

OneSided(pair) == pair[1] = None \/ pair[2] = None

Terminated == pc \in {"done", "exited", "crashed"}

TraceKinds == { trace[i][1] : i \in 1..Len(trace) }

\* C2: a compared page passes exactly when the score of the run's primary
\* metric (the SSIM score under "ssim", the pixel percentage under "pixel")
\* is at least the threshold; a score equal to the threshold passes.
C2_ThresholdStatus ==
    \A i \in 1..Len(results) :
        Compared(results[i]) =>
            LET r == results[i] IN
            /\ r.status \in {"pass", "fail"}
            /\ (metric = "ssim" /\ r.ssim_score # None) =>
                (r.status = "pass"
                    <=> r.ssim_score.n * threshold.d >= threshold.n * r.ssim_score.d)
            /\ metric = "pixel" =>
                (r.status = "pass"
                    <=> r.similarity.n * threshold.d >= threshold.n * r.similarity.d)

\* A pixel score of 50 against a threshold of 50, and an SSIM score of 0.95
\* against the default 0.95: both pass.
C2_Witness ==
    \E i \in 1..Len(results) :
        /\ Compared(results[i])
        /\ results[i].status = "pass"
        /\ \/ /\ metric = "pixel"
              /\ results[i].similarity.n * threshold.d
                    = threshold.n * results[i].similarity.d
           \/ /\ metric = "ssim" /\ results[i].ssim_score # None
              /\ results[i].ssim_score.n * threshold.d
                    = threshold.n * results[i].ssim_score.d

\* C3: a pair with a side absent gets the status "missing" and the score
\* "N/A", never "pass" or "fail"; no scorer runs on it, and the totals of the
\* summary and of the report count it as missing.
C3_MissingPairs ==
    /\ pc = "loop" => Len(results) = idx - 1
    /\ \A i \in 1..Len(results) :
        OneSided(pairs[i]) =>
            /\ results[i].status = "missing"
            /\ results[i].similarity = NA
            /\ DOMAIN results[i] = {"name", "status", "similarity"}
            /\ \A k \in 1..Len(trace) :
                trace[k][1] \in {"pixel", "ssim", "regions", "write"}
                    => trace[k][2] # results[i].name
    /\ summary # None =>
        summary.missing = Cardinality({ i \in 1..Len(pairs) : OneSided(pairs[i]) })
    /\ report # None =>
        report.missing = Cardinality({ i \in 1..Len(pairs) : OneSided(pairs[i]) })

\* A finished run with a page without original and a page without clone.
C3_Witness ==
    /\ pc = "done"
    /\ report.missing >= 2
    /\ \E i, j \in 1..Len(pairs) :
        /\ pairs[i][1] = None /\ pairs[j][2] = None
        /\ results[i].status = "missing" /\ results[j].status = "missing"
    /\ \E i \in 1..Len(results) : Compared(results[i])

\* C4: the process ends with a non-zero exit status whenever a page result
\* has the status "fail".
C4_FailExitsNonZero ==
    (Terminated /\ \E i \in 1..Len(results) : results[i].status = "fail")
        => exit_code # 0

\* C5: when an image of a matched pair is corrupt or unreadable, whether
\* Image.open or the decoding of the pixels fails, the page is recorded with
\* the status "fail" and the score 0.0, and the run goes on.
C5_CorruptImageCaught ==
    \A i \in 1..Len(pairs) :
        (/\ ~OneSided(pairs[i])
         /\ \/ /\ <<"original", pairs[i][1]>> \in DOMAIN disk
               /\ disk[<<"original", pairs[i][1]>>].kind # "image"
            \/ /\ <<"clone", pairs[i][2]>> \in DOMAIN disk
               /\ disk[<<"clone", pairs[i][2]>>].kind # "image")
        => /\ i <= Len(results)
           /\ results[i].status = "fail"
           /\ results[i].similarity = Rat(0, 1)
           /\ pc # "crashed"

\* C6: a Renderer failure at one breakpoint of one page never aborts the run.
C6_RendererFailureCaught ==
    "render_error" \in TraceKinds => pc # "crashed"

\* C7: without scikit-image every call site asked for the structural metric
\* computes the pixel metric and says so: the resolved metric and the
\* report's label are the pixel metric, no page has an SSIM score or a
\* heatmap, a page's status is decided by its pixel score, and every region
\* and every breakpoint entry with a score names the pixel metric.
C7_PixelFallbackReported ==
    ~HAS_SSIM =>
        /\ pc \notin {"start", "idle"} => metric = "pixel"
        /\ "ssim" \notin TraceKinds
        /\ \A i \in 1..Len(results) :
            Compared(results[i]) =>
                LET r == results[i] IN
                /\ r.ssim_score = None
                /\ "heatmap_rel" \notin DOMAIN r
                /\ r.status = "pass"
                    <=> r.similarity.n * threshold.d >= threshold.n * r.similarity.d
                /\ "regions" \in DOMAIN r =>
                    \A k \in 1..Len(r.regions) :
                        /\ r.regions[k].metric = "pixel"
                        /\ r.regions[k].score.n >= 0
                        /\ r.regions[k].score.n <= 100 * r.regions[k].score.d
        /\ \A page \in DOMAIN responsive_results :
            \A k \in 1..Len(responsive_results[page]) :
                "score" \in DOMAIN responsive_results[page][k]
                    => responsive_results[page][k].metric = "pixel"
        /\ report # None => report.metric_label = "Pixel"

\* A finished run that asked for "ssim" without scikit-image and has a page
\* with regions and a breakpoint with a score.
C7_Witness ==
    /\ pc = "done" /\ ~HAS_SSIM /\ args.metric = "ssim"
    /\ \E i \in 1..Len(results) : "regions" \in DOMAIN results[i]
    /\ \E page \in DOMAIN responsive_results :
        \E k \in 1..Len(responsive_results[page]) :
            "score" \in DOMAIN responsive_results[page][k]

\* C8: when the pairing is empty the run ends right after saying so: no page
\* is processed, nothing is rendered, and no report is written.
C8_EmptyPairingEnds ==
    (pc \notin {"start", "idle"} /\ orig_fs.isdir /\ clone_fs.isdir /\ pairs = <<>>)
        => /\ pc = "exited" /\ exit_code = 0
           /\ results = <<>> /\ responsive_results = <<>> /\ report = None
           /\ summary = None /\ playwright = "unknown"
           /\ TraceKinds \subseteq {"mkdir", "print"}
           /\ trace[Len(trace)] = <<"print", "No screenshots found to compare.">>

\* A run with --responsive and a clone HTML file, and no screenshot at all.
C8_Witness ==
    /\ pc = "exited" /\ exit_code = 0
    /\ pairs = <<>>
    /\ args.responsive
    /\ \E f \in clone_fs.files : suffix(f) = S_html

\* The images read for pair i, once both have been read as images.
PairLoaded(i) ==
    /\ i <= Len(pairs) /\ ~OneSided(pairs[i])
    /\ <<"original", pairs[i][1]>> \in DOMAIN disk
    /\ <<"clone", pairs[i][2]>> \in DOMAIN disk
    /\ disk[<<"original", pairs[i][1]>>].kind = "image"
    /\ disk[<<"clone", pairs[i][2]>>].kind = "image"

OrigImage(i) == disk[<<"original", pairs[i][1]>>].img

CloneImage(i) == disk[<<"clone", pairs[i][2]>>].img

Written(path) == \E k \in 1..Len(trace) : trace[k] = <<"write", path>>

\* C17 as stated: a page result refers to a difference overlay exactly when
\* the two images of the pair are not pixel-identical.
C17_DiffWhenNotIdentical ==
    \A i \in 1..Len(results) :
        (Compared(results[i]) /\ PairLoaded(i)) =>
            ("diff_rel" \in DOMAIN results[i] <=> OrigImage(i) # CloneImage(i))

\* C17 amended: a page result refers to a difference overlay, and the
\* overlay is written, exactly when the page's pixel similarity is below
\* 100.0; a pair of identical images gets none, and neither does a pair
\* whose every differing pixel is within the tolerance of 10 per channel.
C17_DiffBelow100 ==
    \A i \in 1..Len(results) :
        (Compared(results[i]) /\ PairLoaded(i)) =>
            LET r == results[i]
                path == <<100, 105, 102, 102, 115, 47>> \o r.name
                            \o <<95, 100, 105, 102, 102, 46, 112, 110, 103>>
            IN  /\ "diff_rel" \in DOMAIN r <=> r.similarity.n < 100 * r.similarity.d
                /\ "diff_rel" \in DOMAIN r => r.diff_rel = path
                /\ Written(path) <=> "diff_rel" \in DOMAIN r
                /\ OrigImage(i) = CloneImage(i) => "diff_rel" \notin DOMAIN r
                /\ (/\ OrigImage(i).size = CloneImage(i).size
                    /\ \A k \in 1..Len(OrigImage(i).data) :
                        ~BeyondTolerance(OrigImage(i).data[k], CloneImage(i).data[k]))
                    => "diff_rel" \notin DOMAIN r

\* A finished run with a page whose images differ within the tolerance and
\* has no overlay, and a page with an overlay.
C17_Witness ==
    /\ pc = "done"
    /\ \E i, j \in 1..Len(results) :
        /\ Compared(results[i]) /\ PairLoaded(i)
        /\ OrigImage(i).size = CloneImage(i).size
        /\ OrigImage(i) # CloneImage(i)
        /\ "diff_rel" \notin DOMAIN results[i]
        /\ Compared(results[j]) /\ "diff_rel" \in DOMAIN results[j]

\* C18 as stated: a page result refers to a structural heatmap only when the
\* two images of the pair are not pixel-identical.
C18_HeatmapOnlyWhenNotIdentical ==
    \A i \in 1..Len(results) :
        (Compared(results[i]) /\ PairLoaded(i) /\ "heatmap_rel" \in DOMAIN results[i])
            => OrigImage(i) # CloneImage(i)

\* C18 amended: for a pair of identical images a heatmap is written and
\* referenced whenever the structural computation succeeded, and not
\* otherwise; no difference overlay is written for such a pair.
C18_HeatmapForIdentical ==
    \A i \in 1..Len(results) :
        (Compared(results[i]) /\ PairLoaded(i) /\ OrigImage(i) = CloneImage(i)) =>
            LET r == results[i]
                path == <<104, 101, 97, 116, 109, 97, 112, 115, 47>> \o r.name
                    \o <<95, 104, 101, 97, 116, 109, 97, 112, 46, 112, 110, 103>>
            IN  /\ r.ssim_score # None =>
                    /\ "heatmap_rel" \in DOMAIN r /\ r.heatmap_rel = path
                    /\ Written(path)
                /\ r.ssim_score = None =>
                    ("heatmap_rel" \notin DOMAIN r /\ ~Written(path))
                /\ "diff_rel" \notin DOMAIN r

\* A finished run with scikit-image and a page of two identical images that
\* has a heatmap and no overlay.
C18_Witness ==
    /\ pc = "done" /\ HAS_SSIM
    /\ \E i \in 1..Len(results) :
        /\ Compared(results[i]) /\ PairLoaded(i)
        /\ OrigImage(i) = CloneImage(i)
        /\ "heatmap_rel" \in DOMAIN results[i]
        /\ "diff_rel" \notin DOMAIN results[i]

\* C19: a page result has a heatmap exactly when it has a structural score;
\* without scikit-image, and after a structural computation that failed, it
\* has neither.
C19_HeatmapIffSsimScore ==
    \A i \in 1..Len(results) :
        Compared(results[i]) =>
            LET r == results[i]
            IN  /\ "heatmap_rel" \in DOMAIN r <=> r.ssim_score # None
                /\ ~HAS_SSIM => (r.ssim_score = None /\ "heatmap_rel" \notin DOMAIN r)
                /\ Written(<<104, 101, 97, 116, 109, 97, 112, 115, 47>> \o r.name
                        \o <<95, 104, 101, 97, 116, 109, 97, 112, 46, 112, 110, 103>>)
                    <=> r.ssim_score # None

\* A finished run with scikit-image where the structural computation failed
\* for one page (no score, no heatmap, status by the pixel score) and
\* succeeded for another.
C19_Witness ==
    /\ pc = "done" /\ HAS_SSIM /\ metric = "ssim"
    /\ \E i, j \in 1..Len(results) :
        /\ Compared(results[i]) /\ results[i].ssim_score = None
        /\ "heatmap_rel" \notin DOMAIN results[i]
        /\ Compared(results[j]) /\ results[j].ssim_score # None
        /\ "heatmap_rel" \in DOMAIN results[j]

\* C20: without --threshold the threshold is 95.0 when the metric that runs
\* is pixel (requested, or "ssim" requested without scikit-image) and 0.95
\* when it is structural; a given threshold is used unchanged.
C20_DefaultThreshold ==
    pc \notin {"start", "idle"} =>
        IF args.threshold # None THEN threshold = args.threshold
        ELSE IF args.metric = "pixel" \/ ~HAS_SSIM
             THEN threshold.n = 95 * threshold.d
             ELSE threshold.n * 100 = 95 * threshold.d

\* "ssim" requested without scikit-image and without --threshold: a page
\* compared against 95.0.
C20_Witness ==
    /\ pc = "done"
    /\ args.metric = "ssim" /\ ~HAS_SSIM /\ args.threshold = None
    /\ threshold.n = 95 /\ threshold.d = 1
    /\ \E i \in 1..Len(results) : Compared(results[i]) /\ results[i].status = "pass"

\* C21: once the report is written the result list has one result per pair,
\* every status is pass, fail or missing, and the totals of the summary and
\* of the report add up to the number of pairs.
C21_TotalsAddUp ==
    report # None =>
        /\ Len(results) = Len(pairs)
        /\ report.pages = results
        /\ \A i \in 1..Len(results) :
            /\ results[i].status \in {"pass", "fail", "missing"}
            /\ results[i].name = PairName(pairs[i])
        /\ report.total = Len(pairs)
        /\ report.passed + report.failed + report.missing = Len(pairs)
        /\ summary.passed + summary.failed + summary.missing = Len(pairs)
        /\ \A st \in {"pass", "fail", "missing"} :
            LET n == Cardinality({ i \in 1..Len(results) : results[i].status = st })
            IN  /\ (st = "pass" => report.passed = n /\ summary.passed = n)
                /\ (st = "fail" => report.failed = n /\ summary.failed = n)
                /\ (st = "missing" => report.missing = n /\ summary.missing = n)

\* A report over three pairs: a pass, a fail by Image.open and a missing.
C21_Witness ==
    /\ pc = "done" /\ Len(pairs) = 3
    /\ report.passed = 1 /\ report.failed = 1 /\ report.missing = 1
    /\ \E i \in 1..3 : results[i].status = "fail" /\ ~Compared(results[i])

\* The clone HTML files of the run.
CloneHtml ==
    { f \in clone_fs.files :
        suffix(f) \in { <<46, 104, 116, 109, 108>>, <<46, 104, 116, 109>> } }

\* "responsive_report/<page>/<page>-<width>.png"
CapturePath(page, w) ==
    <<114, 101, 115, 112, 111, 110, 115, 105, 118, 101, 95, 114, 101, 112, 111,
      114, 116, 47>> \o page \o <<47>> \o page \o <<45>> \o Str(w)
      \o <<46, 112, 110, 103>>

\* C22: in a responsive run with Playwright whose report is written, every
\* clone HTML page has exactly one breakpoint entry per width of the
\* breakpoint list, a repeated width counting once, in ascending width
\* order, and each entry holds the path of the clone capture of its width.
C22_OneEntryPerWidth ==
    (pc = "done" /\ args.responsive /\ playwright = "present") =>
        \A f \in CloneHtml :
            /\ stem(f) \in DOMAIN responsive_results
            /\ LET es == responsive_results[stem(f)]
                   W == { args.breakpoints[i] : i \in 1..Len(args.breakpoints) }
               IN  /\ Len(es) = Cardinality(W)
                   /\ \A w \in W :
                        Cardinality({ k \in 1..Len(es) : es[k].width = w }) = 1
                   /\ \A k \in 1..Len(es) :
                        /\ es[k].width \in W
                        /\ es[k].clone_rel = CapturePath(stem(f), es[k].width)
                        /\ \E j \in 1..Len(trace) :
                            trace[j] = <<"render", stem(f), es[k].width>>
                   /\ \A k \in 1..(Len(es) - 1) : es[k].width < es[k + 1].width

\* Two pages, a.html and b.htm, at the breakpoints 768,320 and a page at
\* the breakpoints 320,320 each reach the report.
C22_Witness ==
    /\ pc = "done" /\ args.responsive /\ playwright = "present"
    /\ Cardinality(CloneHtml) = 2
    /\ args.breakpoints = <<768, 320>>
    /\ \A f \in CloneHtml :
        /\ stem(f) \in DOMAIN responsive_results
        /\ Len(responsive_results[stem(f)]) = 2
        /\ responsive_results[stem(f)][1].width = 320

\* The repeated width of C22: the list 320,320 gives one entry.
C22_RepeatedWidth ==
    /\ pc = "done" /\ args.breakpoints = <<320, 320>>
    /\ \E pg \in DOMAIN responsive_results : Len(responsive_results[pg]) = 1

\* The original files named stem.<supported image extension>.
OriginalsNamed(st) ==
    { f \in orig_fs.files : stem(f) = st /\ C9_Supported(f) }

\* "responsive_report/<page>/orig-<file>"
OrigCopyPath(page, f) ==
    <<114, 101, 115, 112, 111, 110, 115, 105, 118, 101, 95, 114, 101, 112, 111,
      114, 116, 47>> \o page \o <<47, 111, 114, 105, 103, 45>> \o f

\* C23: the original of a breakpoint entry is the per-breakpoint original
\* <page>-<width> with any supported image extension when there is one,
\* otherwise the full-page original of the page; with neither the entry has
\* no original and no score; the entry always has the clone capture path.
C23_OriginalChoice ==
    pc = "done" =>
        \A pg \in DOMAIN responsive_results :
            \A k \in 1..Len(responsive_results[pg]) :
                LET e == responsive_results[pg][k]
                    per == OriginalsNamed(pg \o <<45>> \o Str(e.width))
                    full == OriginalsNamed(pg)
                IN  /\ e.clone_rel = CapturePath(pg, e.width)
                    /\ IF per # {}
                       THEN /\ "original_rel" \in DOMAIN e
                            /\ \E f \in per : e.original_rel = OrigCopyPath(pg, f)
                       ELSE IF full # {}
                       THEN /\ "original_rel" \in DOMAIN e
                            /\ \E f \in full : e.original_rel = OrigCopyPath(pg, f)
                       ELSE /\ "original_rel" \notin DOMAIN e
                            /\ "score" \notin DOMAIN e

\* The paths main writes for pair i inside the loop.
PagePaths(i) ==
    LET nm == PairName(pairs[i])
    IN  (IF pairs[i][1] # None
         THEN { <<111, 114, 105, 103, 105, 110, 97, 108, 115, 47>> \o pairs[i][1] }
         ELSE {})
        \cup (IF pairs[i][2] # None
              THEN { <<99, 108, 111, 110, 101, 115, 47>> \o pairs[i][2] } ELSE {})
        \cup { <<100, 105, 102, 102, 115, 47>> \o nm
                    \o <<95, 100, 105, 102, 102, 46, 112, 110, 103>>,
               <<104, 101, 97, 116, 109, 97, 112, 115, 47>> \o nm
                    \o <<95, 104, 101, 97, 116, 109, 97, 112, 46, 112, 110, 103>> }

\* The pair a trace event works on, 0 when it is not the work on a pair.
PageOf(ev) ==
    LET I == { i \in 1..Len(pairs) :
                \/ ev[1] \in {"pixel", "ssim", "regions"} /\ ev[2] = PairName(pairs[i])
                \/ ev[1] = "print" /\ Len(ev) = 3 /\ ev[2] \in {"MISSING", "ERROR"}
                    /\ ev[3] = PairName(pairs[i])
                \/ ev[1] = "write" /\ ev[2] \in PagePaths(i) }
    IN  IF I = {} THEN 0 ELSE CHOOSE i \in I : TRUE

ReportWrites ==
    { k \in 1..Len(trace) :
        trace[k] = <<"write", <<105, 110, 100, 101, 120, 46, 104, 116, 109, 108>>>> }

\* C25: the pairs are processed one at a time in the matcher's order: the
\* results are in the order of the pairs, the scorer calls and file writes
\* of a pair all come before any work on a later pair, the responsive
\* captures come after the last pair, and index.html is written once, after
\* everything else.
C25_OnePairAtATime ==
    pc \notin {"start", "idle", "exited"} =>
        LET pg == [k \in 1..Len(trace) |-> PageOf(trace[k])]
            work == SelectSeq(pg, LAMBDA x : x # 0)
            P == { k \in 1..Len(trace) : pg[k] # 0 }
            R == { k \in 1..Len(trace) : trace[k][1] \in {"render", "render_error"} }
            O == { k \in 1..Len(trace) :
                    trace[k][1] \in {"write", "render", "pixel", "ssim", "regions"} }
            RW == ReportWrites
        IN  /\ Len(results) <= Len(pairs)
            /\ \A i \in 1..Len(results) : results[i].name = PairName(pairs[i])
            /\ \A k \in 1..(Len(work) - 1) : work[k] <= work[k + 1]
            /\ \A i \in 1..Len(results) :
                Compared(results[i]) =>
                    LET r == results[i] IN
                    /\ \E k \in 1..Len(trace) : trace[k] = <<"pixel", r.name>>
                    /\ "diff_rel" \in DOMAIN r => Written(r.diff_rel)
                    /\ "heatmap_rel" \in DOMAIN r => Written(r.heatmap_rel)
                    /\ "regions" \in DOMAIN r =>
                        \E k \in 1..Len(trace) : trace[k] = <<"regions", r.name>>
            /\ \A j \in R : \A k \in P : k < j
            /\ R # {} => Len(results) = Len(pairs)
            /\ Cardinality(RW) = IF report # None THEN 1 ELSE 0
            /\ \A w \in RW :
                /\ Len(results) = Len(pairs)
                /\ html_files = <<>>
                /\ \A k \in O \ {w} : k < w

\* A finished responsive run over two pairs, the first compared with an
\* overlay, a heatmap and regions, followed by captures and the report.
C25_Witness ==
    /\ pc = "done" /\ Len(pairs) >= 2
    /\ Compared(results[1])
    /\ "diff_rel" \in DOMAIN results[1] /\ "heatmap_rel" \in DOMAIN results[1]
    /\ "regions" \in DOMAIN results[1]
    /\ \E k \in 1..Len(trace) : trace[k][1] = "render"
    /\ Cardinality(ReportWrites) = 1

\* The percentage of the pixels of two equal-sized images whose channels all
\* differ by at most 10, as the pair n, d of the fraction n/d.
MatchPercent(a, b) ==
    LET n == Len(a.data)
        M == { k \in 1..n : ~BeyondTolerance(a.data[k], b.data[k]) }
    IN  <<100 * Cardinality(M), n>>

\* What pair i alone and the configuration say about results[i].
ResultDetermined(i) ==
    LET r == results[i]
        nm == PairName(pairs[i])
    IN  /\ r.name = nm
        /\ OneSided(pairs[i]) => r = [name |-> nm, status |-> "missing", similarity |-> NA]
        /\ (~OneSided(pairs[i]) /\ ~Compared(r)) =>
            /\ r.status = "fail" /\ r.similarity.n = 0
            /\ \/ disk[<<"original", pairs[i][1]>>].kind = "unreadable"
               \/ disk[<<"clone", pairs[i][2]>>].kind = "unreadable"
        /\ Compared(r) =>
            /\ PairLoaded(i)
            /\ r.original_rel = <<111, 114, 105, 103, 105, 110, 97, 108, 115, 47>>
                                    \o pairs[i][1]
            /\ r.clone_rel = <<99, 108, 111, 110, 101, 115, 47>> \o pairs[i][2]
            /\ OrigImage(i).size = CloneImage(i).size =>
                r.similarity.n * MatchPercent(OrigImage(i), CloneImage(i))[2]
                    = MatchPercent(OrigImage(i), CloneImage(i))[1] * r.similarity.d
            /\ r.status = "pass" <=>
                IF metric = "ssim" /\ r.ssim_score # None
                THEN r.ssim_score.n * threshold.d >= threshold.n * r.ssim_score.d
                ELSE r.similarity.n * threshold.d >= threshold.n * r.similarity.d
            /\ HAS_SSIM \/ r.ssim_score = None
            /\ "regions" \in DOMAIN r <=> args.regions > 1
            /\ "regions" \in DOMAIN r => Len(r.regions) = args.regions
            /\ \A x \in DOMAIN r \cap {"diff_rel", "heatmap_rel", "original_rel", "clone_rel"} :
                    r[x] = None \/ r[x] \in PagePaths(i)

\* C26: the result of a pair is what its own two files and the run's
\* configuration (metric, threshold, region count, scikit-image) determine,
\* whatever the other pairs of the run and their results are; the artifact
\* paths of two pairs never coincide; and a result, once appended, is never
\* changed by the work on a later pair.
C26_PairIsolation ==
    /\ [](pc \notin {"start", "idle", "exited"} =>
            /\ \A i \in 1..Len(results) : ResultDetermined(i)
            /\ \A i, j \in 1..Len(pairs) : i # j => PagePaths(i) \cap PagePaths(j) = {})
    /\ [][pc = "loop" =>
            /\ Len(results') >= Len(results)
            /\ SubSeq(results', 1, Len(results)) = results]_vars

\* A failed page followed by a page that passes.
C26_Witness ==
    /\ pc = "done" /\ Len(results) >= 2
    /\ Compared(results[1]) /\ results[1].status = "fail"
    /\ Compared(results[2]) /\ results[2].status = "pass"

\* C27: whenever main compares a score with the threshold the two are on one
\* scale: a structural score (0 to 1) is decided against a threshold of at
\* most 1, and a pixel percentage is never decided against the default
\* threshold of the structural metric; also for the page whose structural
\* computation raised and for the threshold phase_validate passes.
C27_SameScale ==
    pc \notin {"start", "idle", "exited"} =>
        \A i \in 1..Len(results) :
            Compared(results[i]) =>
                LET structural == metric = "ssim" /\ results[i].ssim_score # None
                IN  /\ structural => threshold.n <= threshold.d
                    /\ (~structural /\ args.threshold = None) => metric = "pixel"

(***************************************************************************)
(* run-pipeline.py: main's phase loop, phase_extract and run_parallel.     *)
(* A phase's success is "True", "False" or "None" (manual or skipped by    *)
(* the phase itself).  The scripts the phases run are the environment:     *)
(* each returns success or failure.                                        *)
(***************************************************************************)
ALL_PHASES == <<"capture", "extract", "generate", "validate", "refine">>

PhaseIds == { ALL_PHASES[k] : k \in 1..Len(ALL_PHASES) }

PhasePos(p) == CHOOSE k \in 1..Len(ALL_PHASES) : ALL_PHASES[k] = p

\* The values of --phases after split, strip and lower; None when the option
\* is absent.
PhaseRequests ==
    { None,
      ALL_PHASES,
      <<"refine", "validate", "generate", "extract", "capture">>,
      <<"generate", "capture", "refine">>,
      <<"validate", "extract">>,
      <<"extract", "deploy">> }

\* What each phase function can return as its success value.
PhaseOutcomes(p) ==
    CASE p = "capture" -> {"True", "False"}
      [] p = "extract" -> {"True", "False"}
      [] p = "generate" -> {"None", "True", "False"}
      [] p = "validate" -> {"None", "True", "False"}
      [] p = "refine" -> {"None", "True"}

\* The tasks phase_extract hands to run_parallel, in submission order.
ExtractTasks == <<"extract-css", "extract-colors", "extract-fonts">>

TaskLabels == { ExtractTasks[k] : k \in 1..Len(ExtractTasks) }

\* The tasks of phase_extract whose command line names css/styles.css as
\* input (--css).
CssReaders == {"extract-colors", "extract-design-system"}

InitPipeline ==
    /\ FnIdle /\ MainIdle
    /\ pipe_pc = "parse"
    /\ phases \in PhaseRequests
    /\ phase_pos = 1
    /\ phase_results = <<>>
    /\ executed = <<>>
    /\ task_state = None
    /\ extract_results = <<>>
    /\ css_exists \in BOOLEAN

\* Lines 383-391: the requested phases, all of them by default; an unknown
\* phase ends the run with status 1.
ParsePhases ==
    /\ pipe_pc = "parse"
    /\ IF phases = None
       THEN phases' = ALL_PHASES /\ pipe_pc' = "phases"
       ELSE IF \E k \in 1..Len(phases) : phases[k] \notin PhaseIds
       THEN phases' = phases /\ pipe_pc' = "exited"
       ELSE phases' = phases /\ pipe_pc' = "phases"
    /\ UNCHANGED <<fnVars, mainVars, phase_pos, phase_results, executed,
                   task_state, extract_results, css_exists>>

Requested(p) == \E k \in 1..Len(phases) : phases[k] = p

\* Lines 436-452: a phase is skipped when the phase right before it has a
\* result and that result is False.
DependencyFailed(p) ==
    /\ PhasePos(p) > 1
    /\ ALL_PHASES[PhasePos(p) - 1] \in DOMAIN phase_results
    /\ phase_results[ALL_PHASES[PhasePos(p) - 1]] = "False"

SetResult(p, success) ==
    [q \in DOMAIN phase_results \cup {p} |->
        IF q = p THEN success ELSE phase_results[q]]

\* Lines 432-434: "if phase_id not in phases: continue".
PhaseNotRequested ==
    /\ pipe_pc = "phases" /\ phase_pos <= Len(ALL_PHASES)
    /\ ~Requested(ALL_PHASES[phase_pos])
    /\ phase_pos' = phase_pos + 1
    /\ UNCHANGED <<fnVars, mainVars, pipe_pc, phases, phase_results, executed,
                   task_state, extract_results, css_exists>>

\* Lines 436-452: the dependency check's "continue".
PhaseSkipped ==
    /\ pipe_pc = "phases" /\ phase_pos <= Len(ALL_PHASES)
    /\ Requested(ALL_PHASES[phase_pos])
    /\ DependencyFailed(ALL_PHASES[phase_pos])
    /\ phase_pos' = phase_pos + 1
    /\ UNCHANGED <<fnVars, mainVars, pipe_pc, phases, phase_results, executed,
                   task_state, extract_results, css_exists>>

\* Lines 454-456, for the phases modelled as one step: the runner is called
\* and its result stored.
RunPhase ==
    /\ pipe_pc = "phases" /\ phase_pos <= Len(ALL_PHASES)
    /\ LET p == ALL_PHASES[phase_pos]
       IN  /\ Requested(p) /\ ~DependencyFailed(p)
           /\ p # "extract"
           /\ \E success \in PhaseOutcomes(p) :
                phase_results' = SetResult(p, success)
           /\ executed' = Append(executed, p)
    /\ phase_pos' = phase_pos + 1
    /\ UNCHANGED <<fnVars, mainVars, pipe_pc, phases, task_state,
                   extract_results, css_exists>>

\* Lines 114-150 and 63-67: phase_extract is called and run_parallel submits
\* its three tasks to a pool of three workers.
ExtractSubmit ==
    /\ pipe_pc = "phases" /\ phase_pos <= Len(ALL_PHASES)
    /\ ALL_PHASES[phase_pos] = "extract"
    /\ Requested("extract") /\ ~DependencyFailed("extract")
    /\ executed' = Append(executed, "extract")
    /\ task_state' = [t \in TaskLabels |-> "submitted"]
    /\ extract_results' = <<>>
    /\ pipe_pc' = "parallel"
    /\ UNCHANGED <<fnVars, mainVars, phases, phase_pos, phase_results, css_exists>>

\* A worker process takes a submitted task and starts its script; with
\* max_workers = len(tasks) no task waits for another.
TaskStart ==
    /\ pipe_pc = "parallel"
    /\ \E t \in TaskLabels :
        /\ task_state[t] = "submitted"
        /\ task_state' = [task_state EXCEPT ![t] = "running"]
    /\ UNCHANGED <<fnVars, mainVars, pipe_pc, phases, phase_pos, phase_results,
                   executed, extract_results, css_exists>>

\* Lines 69-78: a task completes and as_completed yields it: its result, or
\* (label, False, 0.0) when future.result() raises, is appended.  A
\* successful extract-css has written css/styles.css.
TaskFinish ==
    /\ pipe_pc = "parallel"
    /\ \E t \in TaskLabels, success \in BOOLEAN :
        /\ task_state[t] = "running"
        /\ task_state' = [task_state EXCEPT ![t] = "finished"]
        /\ extract_results' = Append(extract_results, <<t, success>>)
        /\ css_exists' = (css_exists \/ (t = "extract-css" /\ success))
    /\ UNCHANGED <<fnVars, mainVars, pipe_pc, phases, phase_pos, phase_results,
                   executed>>

\* Line 80: run_parallel returns when every future has completed.
ParallelReturn ==
    /\ pipe_pc = "parallel"
    /\ \A t \in TaskLabels : task_state[t] = "finished"
    /\ pipe_pc' = "design"
    /\ UNCHANGED <<fnVars, mainVars, phases, phase_pos, phase_results, executed,
                   task_state, extract_results, css_exists>>

\* Lines 152-166: extract-design-system runs when css/styles.css exists and
\* counts as failed otherwise.
DesignSystem ==
    /\ pipe_pc = "design"
    /\ \E success \in BOOLEAN :
        /\ ~css_exists => ~success
        /\ extract_results' =
                Append(extract_results, <<"extract-design-system", success>>)
    /\ pipe_pc' = "return"
    /\ UNCHANGED <<fnVars, mainVars, phases, phase_pos, phase_results, executed,
                   task_state, css_exists>>

\* Line 168: all(r[1] for r in results).
AllOk(rs) == \A k \in 1..Len(rs) : rs[k][2]

\* Lines 168-175 and 454-456: phase_extract returns all_ok and main stores it.
ExtractReturn ==
    /\ pipe_pc = "return"
    /\ phase_results' =
            SetResult("extract", IF AllOk(extract_results) THEN "True" ELSE "False")
    /\ phase_pos' = phase_pos + 1
    /\ pipe_pc' = "phases"
    /\ UNCHANGED <<fnVars, mainVars, phases, executed, task_state,
                   extract_results, css_exists>>

\* Lines 458-459: the loop is over and the summary printed.
PipelineDone ==
    /\ pipe_pc = "phases" /\ phase_pos > Len(ALL_PHASES)
    /\ pipe_pc' = "done"
    /\ UNCHANGED <<fnVars, mainVars, phases, phase_pos, phase_results, executed,
                   task_state, extract_results, css_exists>>

NextPipeline ==
    \/ ParsePhases
    \/ PhaseNotRequested
    \/ PhaseSkipped
    \/ RunPhase
    \/ ExtractSubmit
    \/ TaskStart
    \/ TaskFinish
    \/ ParallelReturn
    \/ DesignSystem
    \/ ExtractReturn
    \/ PipelineDone

SpecPipeline == InitPipeline /\ [][NextPipeline]_vars

AllRequested == pipe_pc \notin {"idle", "parse", "exited"} /\ PhaseIds = { phases[k] : k \in 1..Len(phases) }

\* C28: with all phases requested, the runners are called in the order of
\* ALL_PHASES, each at most once, whatever the order of the request, and
\* once a phase has returned failure no later phase is run, also when the
\* phase right after the failed one was skipped.
C28_FailureStopsChain ==
    AllRequested =>
        /\ \A i, j \in 1..Len(executed) :
            i < j => PhasePos(executed[i]) < PhasePos(executed[j])
        /\ \A p \in DOMAIN phase_results :
            phase_results[p] = "False" =>
                \A k \in 1..Len(executed) : PhasePos(executed[k]) <= PhasePos(p)

C30_NoEmptyBand ==
    (Returned("calculate_region_scores") /\ fnArgs.num_regions >= 2) =>
        LET N == fnArgs.num_regions
            H == fnArgs.img1.size[2]
            b == fnResult.boxes
        IN  /\ \A k \in 1..N : b[k][4] - b[k][2] > 0
            /\ H >= N =>
                /\ H \div N >= 1
                /\ \A k \in 1..N : b[k][4] - b[k][2] >= H \div N
                /\ b[N][4] - b[N][2] < (H \div N) + N

====
